---- MODULE Spec2Model ----
(***************************************************************************)
(* The batch pipeline of the LOF premium calculator                        *)
(* (src/src/batch-calculator.ts) over the Workers KV store, with the       *)
(* fund-list filter of the fetcher (src/unnamed/part_002).                 *)
(*                                                                         *)
(* Every exported function is an async function: each await on the store   *)
(* or on the upstream is one step of the caller that runs it, written as   *)
(* an operator from the state before the await to the state after it.  A   *)
(* driver that serialises its calls runs the steps of a call to its        *)
(* return.  Money is kept in thousandths (1.050 is 1050) and rates in      *)
(* hundredths of a percent (5.00 % is 500).                                *)
(***************************************************************************)
EXTENDS Integers, Sequences, FiniteSets, TLC

\* ------------------------------------------------------------ constants
BATCH_SIZE == 10
TTL_RUN == 3600
TTL_REPORT == 86400
NO_TTL == 0
HISTORY_TOP == 10
HISTORY_DAYS == 10
HISTORY_KEEP == 10
CALC_LIMIT == 30
CALC_CONCURRENCY == 3
PREMIUM_ARBITRAGE_COST == 16
DISCOUNT_ARBITRAGE_COST == 51

PROGRESS_KEY == "batch-progress"
FUNDS_KEY == "batch-funds"
RESULTS_KEY == "batch-results"
CACHE_KEY == "lof-premium-data"
Keys == {PROGRESS_KEY, FUNDS_KEY, RESULTS_KEY, CACHE_KEY}

\* --------------------------------------------------------------- bounds
\* The longest fund list the upstream answers.
MaxFunds == 11
\* Records of one list response that the filters discard.
MaxDiscard == 1
\* Per-fund lookups (valuation or close price) that come back empty, in all.
MaxFaults == 1
\* Funds in an accumulator drawn for a report.
MaxReport == 3
\* One-shot pipeline: the funds whose answers vary.
MaxVaried == 3

\* No fund, one fund, one full batch, and the longest list.
ListSizes == {0, 1, BATCH_SIZE, MaxFunds}

\* The single driver of the caller contract, among the callers of the worker.
Callers == {1, 2}
Drivers == {1}

VARIABLES
    kv,      \* the KV namespace LOF_CACHE: key -> entry
    pc,      \* per caller: the await its call is suspended at, or "idle"
    loc,     \* per caller: the local variables of its call
    ret,     \* per caller: what its last call returned
    obs,     \* per caller: its last call, the store writes and upstream use of it
    calls,   \* processNextBatch calls that found the run of the last start running
    faults,  \* faults so far: per-fund answers that deviated, invocations terminated
    overlap, \* some call has begun while the call of another caller was under way
    net,     \* the isolate: its caches, and the requests and delays of the run
    now      \* the current instant, in hours since 2024-01-01T00:00Z

vars == <<kv, pc, loc, ret, obs, calls, faults, overlap, net, now>>

\* ------------------------------------------------------------- helpers
Min(a, b) == IF a < b THEN a ELSE b

Max(a, b) == IF a > b THEN a ELSE b

\* seq.slice(-n)
LastN(seq, n) == SubSeq(seq, Max(1, Len(seq) - n + 1), Len(seq))

Abs(x) == IF x < 0 THEN -x ELSE x

\* Math.ceil(a / b) for a >= 0, b > 0.
Ceil(a, b) == (a + b - 1) \div b

\* a / b rounded to the nearest integer, halves away from zero (toFixed).
RoundDiv(a, b) ==
    IF a >= 0 THEN (2 * a + b) \div (2 * b) ELSE -((2 * (-a) + b) \div (2 * b))

\* The subsets of S with at most n elements.
RECURSIVE SubsetsUpTo(_, _)
SubsetsUpTo(S, n) ==
    IF n = 0 \/ S = {} THEN {{}}
    ELSE LET x == CHOOSE y \in S : TRUE
             rest == S \ {x}
         IN SubsetsUpTo(rest, n) \cup {T \cup {x} : T \in SubsetsUpTo(rest, n - 1)}

\* ------------------------------------------------------------ KV store
Absent == [present |-> FALSE]

\* Whether env.LOF_CACHE.get(key) answers a value rather than null.
Has(store, key) == store[key].present

\* env.LOF_CACHE.put(key, value, {expirationTtl}); no option is NO_TTL.
Put(store, key, value, ttl) ==
    [store EXCEPT ![key] = [present |-> TRUE, value |-> value, ttl |-> ttl]]

\* env.LOF_CACHE.delete(key)
Delete(store, key) == [store EXCEPT ![key] = Absent]

\* ------------------------------------------------------------ progress
IdleProgress ==
    [status |-> "idle", totalFunds |-> 0, processedFunds |-> 0,
     currentBatch |-> 0, totalBatches |-> 0, successCount |-> 0,
     startedAt |-> FALSE, completedAt |-> FALSE, error |-> ""]

\* getProgress(env)
getProgress(store) ==
    IF ~Has(store, PROGRESS_KEY) THEN IdleProgress ELSE store[PROGRESS_KEY].value

\* StartProgress with Math.floor in place of Math.ceil.
StartProgressFloor(n) ==
    [status |-> "running", totalFunds |-> n, processedFunds |-> 0,
     currentBatch |-> 0, totalBatches |-> n \div BATCH_SIZE, successCount |-> 0,
     startedAt |-> TRUE, completedAt |-> FALSE, error |-> ""]

\* The progress startBatchCalculation builds for a list of n funds.
StartProgress(n) ==
    [status |-> "running", totalFunds |-> n, processedFunds |-> 0,
     currentBatch |-> 0, totalBatches |-> Ceil(n, BATCH_SIZE), successCount |-> 0,
     startedAt |-> TRUE, completedAt |-> FALSE, error |-> ""]

\* ----------------------------------------------------------- fund list
\* A fund name is the sequence of the words it is made of, the keywords of
\* the source in Latin letters; name.includes(kw) is kw being one of them.
Includes(name, kw) == \E k \in 1..Len(name) : name[k] = kw

\* A record the upstream lists for fund c, at a live price of 1.020.
GoodRecord(c) == [f12 |-> c, f14 |-> <<"LOF">>, f2 |-> 1020]

\* Records the filters drop: no price, a bond fund, a price under 0.5,
\* a price over 100, no code.
BadRecords ==
    << [f12 |-> 901, f14 |-> <<"LOF">>, f2 |-> -1],
       [f12 |-> 902, f14 |-> <<"zhaiquan", "LOF">>, f2 |-> 1020],
       [f12 |-> 903, f14 |-> <<"LOF">>, f2 |-> 400],
       [f12 |-> 904, f14 |-> <<"LOF">>, f2 |-> 100001],
       [f12 |-> 0, f14 |-> <<"LOF">>, f2 |-> 1020] >>

\* const skipKeywords = [...]: bond and money-market funds.
SkipKeywords ==
    {"zhaiquan", "huobi", "duanzhai", "chunzhai", "zhongzhai", "guozhai",
     "xinyongzhai", "kezhuanzhai", "qiyezhai", "zhengfuzhai", "tongyecundan"}

\* Usable that takes every positive price.
UsableAnyPositive(item) ==
    /\ item.f12 # 0
    /\ item.f14 # <<>>
    /\ item.f2 # -1
    /\ ~(item.f2 <= 0)
    /\ ~\E kw \in SkipKeywords : Includes(item.f14, kw)

\* price === null || price === '-' is f2 = -1 here; '' is code 0 or the
\* name without a word.
Usable(item) ==
    /\ item.f12 # 0
    /\ item.f14 # <<>>
    /\ item.f2 # -1
    /\ ~(item.f2 <= 0 \/ item.f2 > 100000 \/ item.f2 < 500)
    /\ ~\E kw \in SkipKeywords : Includes(item.f14, kw)

ToFund(item) == [code |-> item.f12, name |-> item.f14, marketPrice |-> item.f2]

RECURSIVE ConvertRecords(_)
ConvertRecords(records) ==
    IF records = <<>> THEN <<>>
    ELSE IF Usable(Head(records))
         THEN <<ToFund(Head(records))>> \o ConvertRecords(Tail(records))
         ELSE ConvertRecords(Tail(records))

\* The list responses of the upstream: a first page without data.diff, or
\* the records of all pages, d of them to be dropped and n of them funds.
ListResponses ==
    {[diff |-> FALSE, records |-> <<>>]}
    \cup {[diff |-> TRUE,
           records |-> SubSeq(BadRecords, 1, d) \o [c \in 1..n |-> GoodRecord(c)]] :
            d \in 0..Min(MaxDiscard, Len(BadRecords)), n \in ListSizes}

\* ---------------------------------------------------------- calculator
QDII_KEYWORDS ==
    <<"QDII", "haiwai", "meigu", "ganggu", "nasdaq", "biaopu", "hengsheng",
      "rijing">>

COMMODITY_KEYWORDS ==
    <<"yuanyou", "huangjin", "baiyin", "shiyou", "guijinshu", "shangpin",
      "youse">>

\* for (const kw of keywords) if (name.includes(kw)) ...: whether the loop
\* over keywords from its k-th on finds one in name.
RECURSIVE FindsKeyword(_, _, _)
FindsKeyword(name, keywords, k) ==
    IF k > Len(keywords) THEN FALSE
    ELSE IF Includes(name, keywords[k]) THEN TRUE
    ELSE FindsKeyword(name, keywords, k + 1)

\* detectFundType with the commodity keywords looked for first.
detectCommodityFirst(name) ==
    IF FindsKeyword(name, COMMODITY_KEYWORDS, 1) THEN "commodity"
    ELSE IF FindsKeyword(name, QDII_KEYWORDS, 1) THEN "qdii"
    ELSE "normal"

detectFundType(name) ==
    IF FindsKeyword(name, QDII_KEYWORDS, 1) THEN "qdii"
    ELSE IF FindsKeyword(name, COMMODITY_KEYWORDS, 1) THEN "commodity"
    ELSE "normal"

\* calculatePremiumRate that cuts the third decimal off instead of rounding.
calculatePremiumRateCut(marketPrice, nav) ==
    IF nav <= 0 THEN 0 ELSE ((marketPrice - nav) * 10000) \div nav

\* Money is in thousandths and a rate in hundredths of a percent, so that
\* .toFixed(2) is the rounding of the quotient to the nearest integer.
calculatePremiumRate(marketPrice, nav) ==
    IF nav <= 0 THEN 0 ELSE RoundDiv((marketPrice - nav) * 10000, nav)

\* NetProfit that takes a premiumRate of 0 for a premium.
NetProfitZeroAsPremium(premiumRate) ==
    IF premiumRate >= 0
    THEN premiumRate - PREMIUM_ARBITRAGE_COST
    ELSE Abs(premiumRate) - DISCOUNT_ARBITRAGE_COST

NetProfit(premiumRate) ==
    IF premiumRate > 0
    THEN premiumRate - PREMIUM_ARBITRAGE_COST
    ELSE Abs(premiumRate) - DISCOUNT_ARBITRAGE_COST

\* ------------------------------------------------------------ upstream
\* What the upstream answers the two per-fund lookups of one fund with:
\* to fetchFundNav the latest valuation and its date (navOk) or nothing, to
\* fetchHistoricalPrice the daily closes of the fund (priceOk) or nothing.
\* The date 0 is the empty string.
Closes(own) ==
    <<[date |-> 1, value |-> 1040], [date |-> 2, value |-> own],
      [date |-> 3, value |-> 1060]>>

NormalAnswer ==
    [navOk |-> TRUE, nav |-> 1000, navDate |-> 2,
     priceOk |-> TRUE, closes |-> Closes(1050)]

Deviations ==
    { [navOk |-> FALSE, nav |-> 0, navDate |-> 0, priceOk |-> FALSE, closes |-> <<>>],
      [navOk |-> TRUE, nav |-> 1000, navDate |-> 2, priceOk |-> FALSE, closes |-> <<>>] }

\* null for a price.
NoPrice == 0

\* fetchHistoricalPrice(code, date) answered with a: dateMap.get(date) || null.
fetchHistoricalPrice(a, date) ==
    IF date = 0 \/ ~a.priceOk THEN NoPrice
    ELSE LET at == {k \in 1..Len(a.closes) : a.closes[k].date = date}
         IN IF at = {} THEN NoPrice
            ELSE a.closes[CHOOSE k \in at : \A j \in at : j <= k].value

\* The answers to a slice of n funds of which at most budget deviate.
SliceAnswers(n, budget) ==
    UNION { { [k \in 1..n |-> IF k \in D THEN dev[k] ELSE NormalAnswer] :
                dev \in [D -> Deviations] } :
            D \in SubsetsUpTo(1..n, budget) }

DeviationCount(answers) ==
    Cardinality({k \in DOMAIN answers : answers[k] # NormalAnswer})

\* ------------------------------------------------------- slice processing
\* The record pushed for a fund whose valuation and close were both found.
FundRecord(fund, a, price) ==
    [code |-> fund.code, name |-> fund.name, marketPrice |-> price,
     nav |-> a.nav, navDate |-> a.navDate,
     fundType |-> detectFundType(fund.name),
     premiumRate |-> calculatePremiumRate(price, a.nav),
     netProfit |-> NetProfit(calculatePremiumRate(price, a.nav))]

\* FundWithPremium with the latest close in place of the close of navDate.
FundWithLatestClose(fund, a) ==
    FundRecord(fund, a, a.closes[Len(a.closes)].value)

FundWithPremium(fund, a) ==
    FundRecord(fund, a, fetchHistoricalPrice(a, a.navDate))

\* Whether the loop body pushes a record for an answer: a valuation
\* (if (!nav) continue) and a close of its date (if (!price) continue).
Pushes(a) == a.navOk /\ fetchHistoricalPrice(a, a.navDate) # NoPrice

\* for (const fund of batch) { ... }: the results of one slice.
RECURSIVE ProcessBatch(_, _, _)
ProcessBatch(batch, answers, k) ==
    IF k > Len(batch) THEN <<>>
    ELSE (IF Pushes(answers[k])
          THEN <<FundWithPremium(batch[k], answers[k])>>
          ELSE <<>>) \o ProcessBatch(batch, answers, k + 1)

\* SliceStart that begins a slice at the last fund of the slice before.
SliceStartOverlapping(progress) ==
    IF progress.currentBatch = 0 THEN 0
    ELSE progress.currentBatch * BATCH_SIZE - 1

SliceStart(progress) == progress.currentBatch * BATCH_SIZE

\* SliceEnd without the Math.min against the length of the list.
SliceEndUnclamped(progress, funds) == SliceStart(progress) + BATCH_SIZE

\* const end = Math.min(start + BATCH_SIZE, funds.length)
SliceEnd(progress, funds) == Min(SliceStart(progress) + BATCH_SIZE, Len(funds))

\* funds.slice(start, end): an end past the list stops at its last element.
Slice(funds, start, end) == SubSeq(funds, start + 1, Min(end, Len(funds)))

\* AdvanceProgress that leaves processedFunds as it was.
AdvanceWithoutProcessed(progress, end, n) ==
    [progress EXCEPT !.currentBatch = progress.currentBatch + 1,
                     !.successCount = n]

\* AdvanceProgress that leaves currentBatch as it was.
AdvanceWithoutBatch(progress, end, n) ==
    [progress EXCEPT !.processedFunds = end,
                     !.successCount = n]

\* The progress after a slice: currentBatch++, processedFunds = end,
\* successCount = existingResults.length.
AdvanceProgress(progress, end, n) ==
    [progress EXCEPT !.currentBatch = progress.currentBatch + 1,
                     !.processedFunds = end,
                     !.successCount = n]

\* ErrorProgress that sets the status and no message.
ErrorWithoutMessage(progress) == [progress EXCEPT !.status = "error"]

\* progress.status = 'error'; progress.error = ...
ErrorProgress(progress) ==
    [progress EXCEPT !.status = "error", !.error = "fund list missing"]

\* CompletedProgress that also rewinds the batch counter.
CompletedRewound(progress) ==
    [progress EXCEPT !.status = "completed", !.completedAt = TRUE,
                     !.currentBatch = 0]

\* progress.status = 'completed'; progress.completedAt = new Date()...
CompletedProgress(progress) ==
    [progress EXCEPT !.status = "completed", !.completedAt = TRUE]

\* AppendResults that forgets what the accumulator held.
OverwriteResults(existing, results) == results

\* AppendResults that puts the results of the slice in front.
PrependResults(existing, results) == results \o existing

\* existingResults.push(...results)
AppendResults(existing, results) == existing \o results

\* ------------------------------------------------------------- finalize
\* allFunds.filter(f => f.premiumRate > 0)
RECURSIVE FilterPremium(_)
FilterPremium(fs) ==
    IF fs = <<>> THEN <<>>
    ELSE (IF Head(fs).premiumRate > 0 THEN <<Head(fs)>> ELSE <<>>)
         \o FilterPremium(Tail(fs))

\* InsertDesc that puts x before its equals.
RECURSIVE InsertBeforeEquals(_, _)
InsertBeforeEquals(x, sorted) ==
    IF sorted = <<>> THEN <<x>>
    ELSE IF Head(sorted).premiumRate > x.premiumRate
         THEN <<Head(sorted)>> \o InsertBeforeEquals(x, Tail(sorted))
         ELSE <<x>> \o sorted

\* x put into a list sorted by descending premiumRate, after its equals.
RECURSIVE InsertDesc(_, _)
InsertDesc(x, sorted) ==
    IF sorted = <<>> THEN <<x>>
    ELSE IF Head(sorted).premiumRate >= x.premiumRate
         THEN <<Head(sorted)>> \o InsertDesc(x, Tail(sorted))
         ELSE <<x>> \o sorted

\* premiumFunds.sort((a, b) => b.premiumRate - a.premiumRate), a stable sort.
RECURSIVE SortDesc(_)
SortDesc(fs) ==
    IF fs = <<>> THEN <<>>
    ELSE InsertDesc(fs[Len(fs)], SortDesc(SubSeq(fs, 1, Len(fs) - 1)))

\* dateCounts.get(d) once every fund of fs is counted.
DateCount(fs, d) == Cardinality({k \in 1..Len(fs) : fs[k].navDate = d})

\* The keys of dateCounts in the order a Map iterates them: the order in
\* which the dates first appear in fs.
RECURSIVE DistinctDates(_)
DistinctDates(fs) ==
    IF fs = <<>> THEN <<>>
    ELSE LET front == DistinctDates(SubSeq(fs, 1, Len(fs) - 1))
             d == fs[Len(fs)].navDate
         IN IF \E k \in 1..Len(front) : front[k] = d THEN front
            ELSE Append(front, d)

\* Outnumbers that lets an equal count win.
OutnumbersOrTies(count, maxCount) == count >= maxCount

\* if (count > maxCount)
Outnumbers(count, maxCount) == count > maxCount

\* for (const [date, count] of dateCounts) { ... } from the k-th key on,
\* with mostCommonNavDate = best so far; 0 stands for the empty string.
RECURSIVE MostCommonFrom(_, _, _, _, _)
MostCommonFrom(fs, dates, k, best, maxCount) ==
    IF k > Len(dates) THEN best
    ELSE IF Outnumbers(DateCount(fs, dates[k]), maxCount)
         THEN MostCommonFrom(fs, dates, k + 1, dates[k], DateCount(fs, dates[k]))
         ELSE MostCommonFrom(fs, dates, k + 1, best, maxCount)

MostCommonNavDate(fs) == MostCommonFrom(fs, DistinctDates(fs), 1, 0, 0)

\* ------------------------------------------------------------ histories
\* A series the upstream holds for one fund: one value a day, oldest first.
Series(from, to, value) ==
    [k \in 1..(to - from + 1) |-> [date |-> from + k - 1, value |-> value]]

\* What the two history lookups of one fund find: the valuations of three
\* days at 1.000 and the closes of the same days at 1.050.
NormalHistory ==
    [navOk |-> TRUE, navSeries |-> Series(1, 3, 1000),
     priceOk |-> TRUE, priceSeries |-> Series(1, 3, 1050)]

\* Both lookups fail; the closes fail; a valuation of 0 and closes a day
\* late; twelve days of both.
HistoryDeviations ==
    { [navOk |-> FALSE, navSeries |-> <<>>, priceOk |-> FALSE, priceSeries |-> <<>>],
      [navOk |-> TRUE, navSeries |-> Series(1, 3, 1000),
       priceOk |-> FALSE, priceSeries |-> <<>>],
      [navOk |-> TRUE,
       navSeries |-> [Series(1, 3, 1000) EXCEPT ![2].value = 0],
       priceOk |-> TRUE, priceSeries |-> Series(2, 4, 1050)],
      [navOk |-> TRUE, navSeries |-> Series(1, 12, 1000),
       priceOk |-> TRUE, priceSeries |-> Series(1, 12, 1050)] }

\* The history answers to n ranked funds of which at most budget deviate.
HistoryAnswers(n, budget) ==
    UNION { { [k \in 1..n |-> IF k \in D THEN dev[k] ELSE NormalHistory] :
                dev \in [D -> HistoryDeviations] } :
            D \in SubsetsUpTo(1..n, budget) }

HistoryDeviationCount(answers) ==
    Cardinality({k \in DOMAIN answers : answers[k] # NormalHistory})

\* The Map a history lookup returns: empty when the request failed, else
\* the last days entries of the series, by date.
HistoryMap(ok, series, days) ==
    IF ~ok THEN [d \in {} |-> 0]
    ELSE LET recent == LastN(series, days)
         IN [d \in {recent[k].date : k \in 1..Len(recent)} |->
               recent[CHOOSE k \in 1..Len(recent) :
                        /\ recent[k].date = d
                        /\ \A j \in (k + 1)..Len(recent) : recent[j].date # d].value]

fetchFundNavHistory(h, days) == HistoryMap(h.navOk, h.navSeries, days)

fetchHistoricalPrices(h, days) == HistoryMap(h.priceOk, h.priceSeries, days)

\* Array.from(allDates).sort()
RECURSIVE SortedDates(_)
SortedDates(S) ==
    IF S = {} THEN <<>>
    ELSE LET m == CHOOSE x \in S : \A y \in S : x <= y
         IN <<m>> \o SortedDates(S \ {m})

\* The premiumHistory of one fund: a DailyPremium for every date that has a
\* valuation and a close, both truthy and the valuation positive; the last
\* ten of them.
PremiumHistory(navHistory, priceHistory) ==
    LET Aligned(d) == /\ d \in DOMAIN navHistory /\ d \in DOMAIN priceHistory
                      /\ navHistory[d] # 0 /\ priceHistory[d] # 0
                      /\ navHistory[d] > 0
        dates == SelectSeq(SortedDates(DOMAIN navHistory \cup DOMAIN priceHistory),
                           Aligned)
    IN LastN([k \in 1..Len(dates) |->
                [date |-> dates[k], nav |-> navHistory[dates[k]],
                 price |-> priceHistory[dates[k]],
                 premiumRate |-> RoundDiv((priceHistory[dates[k]] - navHistory[dates[k]])
                                            * 10000, navHistory[dates[k]])]],
             HISTORY_KEEP)

\* TopFundsForHistory that takes every ranked fund.
TopFundsAll(premiumFunds) == premiumFunds

\* premiumFunds.slice(0, 10)
TopFundsForHistory(premiumFunds) ==
    SubSeq(premiumFunds, 1, Min(HISTORY_TOP, Len(premiumFunds)))

\* fund.premiumHistory of the ranked funds, by rank: set for the funds of
\* topFundsForHistory, absent for the others.
Enrich(premiumFunds, answers) ==
    [r \in 1..Len(premiumFunds) |->
       IF r <= Len(TopFundsForHistory(premiumFunds))
       THEN [present |-> TRUE,
             entries |-> PremiumHistory(fetchFundNavHistory(answers[r], HISTORY_DAYS),
                                        fetchHistoricalPrices(answers[r], HISTORY_DAYS))]
       ELSE [present |-> FALSE, entries |-> <<>>]]

\* failedCount of the report, with the subtraction the wrong way round.
FailedCountReversed(allFunds, progress) ==
    Len(allFunds) - progress.totalFunds

\* failedCount: progress.totalFunds - allFunds.length.
FailedCount(allFunds, progress) ==
    progress.totalFunds - Len(allFunds)

\* The CalculationResult generateFinalResult builds from the accumulator;
\* premiumHistory[r] is the premiumHistory of topPremiumFunds[r].
FinalResult(allFunds, progress, answers) ==
    [premiumHistory |-> Enrich(SortDesc(FilterPremium(allFunds)), answers),
     successCount |-> Len(allFunds),
     failedCount |-> FailedCount(allFunds, progress),
     premiumFundCount |-> Len(FilterPremium(allFunds)),
     mostCommonNavDate |-> MostCommonNavDate(allFunds),
     topPremiumFunds |-> SortDesc(FilterPremium(allFunds)),
     allFunds |-> allFunds]

\* ------------------------------------------------------------- isolate
\* The isolate that serves the requests: its module-level caches priceCache
\* and navHistoryCache (fund code to document), and the upstream requests and
\* the delays of the run since its start(), in the order they are awaited.  The
\* platform decides how long an isolate lives.  With kept = FALSE every
\* request is served by an isolate of its own: it finds the caches empty and
\* nothing it leaves is seen again, so nothing is kept here.  With
\* kept = TRUE one isolate serves request after request.
FreshIsolate ==
    [kept |-> FALSE, priceCache |-> <<>>, navHistoryCache |-> <<>>, trace |-> <<>>]

KeptIsolate == [FreshIsolate EXCEPT !.kept = TRUE]

\* cache.set(code, document)
CacheSet(cache, code, document) ==
    [c \in DOMAIN cache \cup {code} |-> IF c = code THEN document ELSE cache[c]]

Request(kind, code) == [kind |-> kind, code |-> code]

\* await delay(...)
Delay == [kind |-> "delay", code |-> 0]

\* The isolate as a step leaves it.
Serve(s, isolate) == IF s.net.kept THEN [s EXCEPT !.net = isolate] ELSE s

\* The valuation document fetchFundNav caches when answered with a: the
\* history up to the latest valuation.
NavDocument(a) == Series(1, a.navDate, a.nav)

\* if (priceCache.has(code)) { ... if (dateMap.has(date)) ...
PriceCached(isolate, code, date) ==
    /\ code \in DOMAIN isolate.priceCache
    /\ \E e \in 1..Len(isolate.priceCache[code]) :
         isolate.priceCache[code][e].date = date

\* What the two lookups of a fund answer, the upstream answering a: the
\* price lookup answers from priceCache when it has the code and the date.
Seen(isolate, fund, a) ==
    IF a.navOk /\ PriceCached(isolate, fund.code, a.navDate)
    THEN [a EXCEPT !.priceOk = TRUE, !.closes = isolate.priceCache[fund.code]]
    ELSE a

SeenAnswers(isolate, batch, answers) ==
    [k \in 1..Len(batch) |-> Seen(isolate, batch[k], answers[k])]

\* What one pass of the loop body awaits: fetchFundNav always sends its
\* request; fetchHistoricalPrice sends one unless the date is empty or the
\* cache answers; the pass ends in a delay, also when the fund is skipped.
FundTrace(isolate, fund, a) ==
    <<Request("nav", fund.code)>>
    \o (IF a.navOk /\ a.navDate # 0 /\ ~PriceCached(isolate, fund.code, a.navDate)
        THEN <<Request("price", fund.code)>>
        ELSE <<>>)
    \o <<Delay>>

\* The isolate after one pass of the loop body: navHistoryCache.set in
\* fetchFundNav and priceCache.set in fetchHistoricalPrice when the upstream
\* answered with a document.
FundIsolate(isolate, fund, a) ==
    [isolate EXCEPT
       !.trace = @ \o FundTrace(isolate, fund, a),
       !.navHistoryCache =
           IF a.navOk THEN CacheSet(@, fund.code, NavDocument(a)) ELSE @,
       !.priceCache =
           IF a.navOk /\ a.navDate # 0
              /\ ~PriceCached(isolate, fund.code, a.navDate)
              /\ a.priceOk /\ a.closes # <<>>
           THEN CacheSet(@, fund.code, a.closes) ELSE @]

\* The isolate after the loop over a slice from its k-th fund on.
RECURSIVE SliceIsolate(_, _, _, _)
SliceIsolate(batch, answers, k, isolate) ==
    IF k > Len(batch) THEN isolate
    ELSE SliceIsolate(batch, answers, k + 1,
                      FundIsolate(isolate, batch[k], answers[k]))

\* What the two history lookups of a ranked fund answer, the upstream
\* answering h: fetchFundNavHistory answers from navHistoryCache when it has
\* the code; fetchHistoricalPrices never looks at priceCache.
SeenHistory(isolate, fund, h) ==
    IF fund.code \in DOMAIN isolate.navHistoryCache
    THEN [h EXCEPT !.navOk = TRUE,
                   !.navSeries = isolate.navHistoryCache[fund.code]]
    ELSE h

SeenHistories(isolate, top, answers) ==
    [r \in 1..Len(answers) |->
       IF r <= Len(top) THEN SeenHistory(isolate, top[r], answers[r])
       ELSE answers[r]]

\* fetchHistoricalPrices(fund.code, 10) always sends its request.
PriceHistoryTrace(isolate, fund) == <<Request("priceHistory", fund.code)>>

\* The isolate after the history lookups of the ranked funds from the r-th
\* on; the requests of a group of 3 go out together and are here in rank
\* order, and a delay follows every group but the last.
RECURSIVE HistoryIsolate(_, _, _, _)
HistoryIsolate(top, answers, r, isolate) ==
    IF r > Len(top) THEN isolate
    ELSE LET code == top[r].code
             cached == code \in DOMAIN isolate.navHistoryCache
         IN HistoryIsolate(top, answers, r + 1,
              [isolate EXCEPT
                 !.trace = @ \o (IF cached THEN <<>>
                                 ELSE <<Request("navHistory", code)>>)
                             \o PriceHistoryTrace(isolate, top[r])
                             \o (IF r % 3 = 0 /\ r < Len(top)
                                 THEN <<Delay>> ELSE <<>>),
                 !.navHistoryCache =
                     IF ~cached /\ answers[r].navOk
                        /\ answers[r].navSeries # <<>>
                     THEN CacheSet(@, code, answers[r].navSeries) ELSE @])

\* ------------------------------------------------------------- callers
LocIdle ==
    [progress |-> IdleProgress, funds |-> <<>>, results |-> <<>>,
     existing |-> <<>>, report |-> <<>>]

NoReturn == [kind |-> "none", progress |-> IdleProgress]

NoCall == [op |-> "none", writes |-> 0, upstream |-> FALSE]

\* The state as one record, for the steps to map.
Cur ==
    [kv |-> kv, pc |-> pc, loc |-> loc, ret |-> ret, obs |-> obs,
     calls |-> calls, faults |-> faults, overlap |-> overlap, net |-> net]

Becomes(s) ==
    /\ kv' = s.kv
    /\ pc' = s.pc
    /\ loc' = s.loc
    /\ ret' = s.ret
    /\ obs' = s.obs
    /\ calls' = s.calls
    /\ faults' = s.faults
    /\ overlap' = s.overlap
    /\ net' = s.net
    /\ now' = now

\* Caller i calls the exported function op.
Begin(s, i, op) ==
    [s EXCEPT !.obs[i] = [op |-> op, writes |-> 0, upstream |-> FALSE],
              !.ret[i] = NoReturn,
              !.overlap = @ \/ \E j \in Callers \ {i} : s.pc[j] # "idle"]

\* The call of caller i returns: its locals are gone.
Return(s, i, kind, progress) ==
    [s EXCEPT !.pc[i] = "idle", !.loc[i] = LocIdle,
              !.ret[i] = [kind |-> kind, progress |-> progress]]

\* Caller i goes on to the next await of its call.
Goto(s, i, label, locals) == [s EXCEPT !.pc[i] = label, !.loc[i] = locals]

\* await env.LOF_CACHE.put(...) by caller i
StorePut(s, i, key, value, ttl) ==
    [s EXCEPT !.kv = Put(s.kv, key, value, ttl), !.obs[i].writes = @ + 1]

\* await env.LOF_CACHE.delete(...) by caller i
StoreDelete(s, i, key) ==
    [s EXCEPT !.kv = Delete(s.kv, key), !.obs[i].writes = @ + 1]

\* Caller i has sent a request to the upstream.
Fetched(s, i) == [s EXCEPT !.obs[i].upstream = TRUE]

Init ==
    /\ kv = [k \in Keys |-> Absent]
    /\ pc = [i \in Callers |-> "idle"]
    /\ loc = [i \in Callers |-> LocIdle]
    /\ ret = [i \in Callers |-> NoReturn]
    /\ obs = [i \in Callers |-> NoCall]
    /\ calls = 0
    /\ faults = 0
    /\ overlap = FALSE
    /\ net = FreshIsolate
    /\ now = 0

\* ---------------------------------------------- startBatchCalculation
\* fetchLOFList(): throws on a first page without data.diff.
fetchLOFList(resp) ==
    IF ~resp.diff THEN [threw |-> TRUE, funds |-> <<>>]
    ELSE [threw |-> FALSE, funds |-> ConvertRecords(resp.records)]

\* const funds = await fetchLOFList()
StartFetchList(s, i, resp) ==
    IF fetchLOFList(resp).threw
    THEN Return(Fetched(s, i), i, "error", IdleProgress)
    ELSE Goto(Fetched(s, i), i, "s_putFunds",
              [LocIdle EXCEPT !.funds = fetchLOFList(resp).funds])

StartPutFunds(s, i) ==
    Goto(StorePut(s, i, FUNDS_KEY, s.loc[i].funds, TTL_RUN), i, "s_putResults", s.loc[i])

\* StartPutResults that leaves the accumulator of the run before.
StartKeepResults(s, i) == Goto(s, i, "s_putProgress", s.loc[i])

\* await env.LOF_CACHE.put(RESULTS_KEY, '[]', { expirationTtl: 3600 })
StartPutResults(s, i) ==
    Goto(StorePut(s, i, RESULTS_KEY, <<>>, TTL_RUN), i, "s_putProgress", s.loc[i])

\* With the progress in the store the run is begun: no nextBatch() call of
\* it so far, and of its requests the one for the list.
StartPutProgress(s, i) ==
    Return(Serve([StorePut(s, i, PROGRESS_KEY, StartProgress(Len(s.loc[i].funds)), TTL_RUN)
                     EXCEPT !.calls = 0],
                 [s.net EXCEPT !.trace = <<Request("list", 0)>>]),
           i, "progress", StartProgress(Len(s.loc[i].funds)))

\* --------------------------------------------------- processNextBatch
\* NextGetProgress that takes a run in error up again.
NextGetProgressRetryError(s, i) ==
    IF getProgress(s.kv).status \notin {"running", "error"}
    THEN Return(s, i, "progress", getProgress(s.kv))
    ELSE Goto([s EXCEPT !.calls = @ + 1], i, "n_getFunds",
              [LocIdle EXCEPT !.progress = getProgress(s.kv)])

\* NextGetProgress that returns early for status idle alone.
NextGetProgressIdleOnly(s, i) ==
    IF getProgress(s.kv).status = "idle"
    THEN Return(s, i, "progress", getProgress(s.kv))
    ELSE Goto([s EXCEPT !.calls = @ + 1], i, "n_getFunds",
              [LocIdle EXCEPT !.progress = getProgress(s.kv)])

\* const progress = await getProgress(env); not running: return it.
NextGetProgress(s, i) ==
    IF getProgress(s.kv).status # "running"
    THEN Return(s, i, "progress", getProgress(s.kv))
    ELSE Goto([s EXCEPT !.calls = @ + 1], i, "n_getFunds",
              [LocIdle EXCEPT !.progress = getProgress(s.kv)])

\* NextGetFunds that takes the run for done when the slice at hand is the
\* last one.
NextGetFundsEarly(s, i) ==
    IF ~Has(s.kv, FUNDS_KEY)
    THEN Goto(s, i, "n_putError",
              [s.loc[i] EXCEPT !.progress = ErrorProgress(s.loc[i].progress)])
    ELSE IF SliceStart(s.loc[i].progress) + BATCH_SIZE >= Len(s.kv[FUNDS_KEY].value)
         THEN Goto(s, i, "n_putCompleted",
                   [s.loc[i] EXCEPT !.funds = s.kv[FUNDS_KEY].value,
                                    !.progress = CompletedProgress(s.loc[i].progress)])
         ELSE Goto(s, i, "n_slice", [s.loc[i] EXCEPT !.funds = s.kv[FUNDS_KEY].value])

\* const fundsData = await env.LOF_CACHE.get(FUNDS_KEY), and the branch taken.
NextGetFunds(s, i) ==
    IF ~Has(s.kv, FUNDS_KEY)
    THEN Goto(s, i, "n_putError",
              [s.loc[i] EXCEPT !.progress = ErrorProgress(s.loc[i].progress)])
    ELSE IF SliceStart(s.loc[i].progress) >= Len(s.kv[FUNDS_KEY].value)
         THEN Goto(s, i, "n_putCompleted",
                   [s.loc[i] EXCEPT !.funds = s.kv[FUNDS_KEY].value,
                                    !.progress = CompletedProgress(s.loc[i].progress)])
         ELSE Goto(s, i, "n_slice", [s.loc[i] EXCEPT !.funds = s.kv[FUNDS_KEY].value])

\* NextPutError that stores the error progress with the TTL of a run.
NextPutErrorWithTtl(s, i) ==
    Return(StorePut(s, i, PROGRESS_KEY, s.loc[i].progress, TTL_RUN),
           i, "progress", s.loc[i].progress)

\* await env.LOF_CACHE.put(PROGRESS_KEY, ...) without TTL; return progress
NextPutError(s, i) ==
    Return(StorePut(s, i, PROGRESS_KEY, s.loc[i].progress, NO_TTL),
           i, "progress", s.loc[i].progress)

\* NextPutCompleted that goes on to finalize without the put.
NextPutCompletedLate(s, i) == Goto(s, i, "f_getResults", s.loc[i])

NextPutCompleted(s, i) ==
    Goto(StorePut(s, i, PROGRESS_KEY, s.loc[i].progress, NO_TTL),
         i, "f_getResults", s.loc[i])

\* generateFinalResult: the accumulator is read and the report built; the
\* history requests go out when a fund is ranked.
FinalGetResults(s, i, answers) ==
    LET allFunds == IF Has(s.kv, RESULTS_KEY) THEN s.kv[RESULTS_KEY].value ELSE <<>>
        top == TopFundsForHistory(SortDesc(FilterPremium(allFunds)))
        result == FinalResult(allFunds, s.loc[i].progress,
                              SeenHistories(s.net, top, answers))
        t == Serve([s EXCEPT !.faults = @ + HistoryDeviationCount(answers)],
                   HistoryIsolate(top, answers, 1, s.net))
    IN Goto(IF result.premiumFundCount > 0 THEN Fetched(t, i) ELSE t,
            i, "f_putReport", [s.loc[i] EXCEPT !.report = result])

\* FinalPutReport that returns without storing the report.
FinalSkipReport(s, i) == Return(s, i, "progress", s.loc[i].progress)

\* generateFinalResult: the report is stored; processNextBatch returns.
FinalPutReport(s, i) ==
    Return(StorePut(s, i, CACHE_KEY, s.loc[i].report, TTL_REPORT),
           i, "progress", s.loc[i].progress)

\* The funds of the slice caller i is at.
Batch(s, i) ==
    Slice(s.loc[i].funds, SliceStart(s.loc[i].progress),
          SliceEnd(s.loc[i].progress, s.loc[i].funds))

\* The loop over the slice, one fund after the other.
NextProcessSlice(s, i, answers) ==
    Goto(Fetched(Serve([s EXCEPT !.faults = @ + DeviationCount(answers)],
                       SliceIsolate(Batch(s, i), answers, 1, s.net)), i),
         i, "n_getResults",
         [s.loc[i] EXCEPT !.results =
              ProcessBatch(Batch(s, i), SeenAnswers(s.net, Batch(s, i), answers), 1)])

\* NextGetResults that takes the results of the slice for the accumulator.
NextGetResultsFresh(s, i) ==
    Goto(s, i, "n_putResults", [s.loc[i] EXCEPT !.existing = s.loc[i].results])

\* const existingResultsData = await env.LOF_CACHE.get(RESULTS_KEY); push.
NextGetResults(s, i) ==
    Goto(s, i, "n_putResults",
         [s.loc[i] EXCEPT !.existing =
             AppendResults(IF Has(s.kv, RESULTS_KEY) THEN s.kv[RESULTS_KEY].value ELSE <<>>,
                           s.loc[i].results)])

\* NextPutResults that does not write the accumulator.
NextSkipResults(s, i) == Goto(s, i, "n_putProgress", s.loc[i])

\* NextPutResults that writes the advanced progress first.
NextPutProgressFirst(s, i) ==
    Goto(StorePut(StorePut(s, i, PROGRESS_KEY,
                           AdvanceProgress(s.loc[i].progress,
                                           SliceEnd(s.loc[i].progress, s.loc[i].funds),
                                           Len(s.loc[i].existing)), TTL_RUN),
                  i, RESULTS_KEY, s.loc[i].existing, TTL_RUN),
         i, "n_putProgress", s.loc[i])

\* await env.LOF_CACHE.put(RESULTS_KEY, ..., { expirationTtl: 3600 })
NextPutResults(s, i) ==
    Goto(StorePut(s, i, RESULTS_KEY, s.loc[i].existing, TTL_RUN),
         i, "n_putProgress", s.loc[i])

\* NextProgress that advances the progress the store holds at the write.
NextProgressFresh(s, i) ==
    AdvanceProgress(getProgress(s.kv), SliceEnd(s.loc[i].progress, s.loc[i].funds),
                    Len(s.loc[i].existing))

\* The progress caller i writes after its slice.
NextProgress(s, i) ==
    AdvanceProgress(s.loc[i].progress, SliceEnd(s.loc[i].progress, s.loc[i].funds),
                    Len(s.loc[i].existing))

NextPutProgress(s, i) ==
    Return(StorePut(s, i, PROGRESS_KEY, NextProgress(s, i), TTL_RUN),
           i, "progress", NextProgress(s, i))

\* ------------------------------------------------------ resetProgress
ResetDeleteProgress(s, i) ==
    Goto(StoreDelete(s, i, PROGRESS_KEY), i, "r_deleteFunds", LocIdle)

\* ResetDeleteFunds that leaves the list in the store.
ResetKeepFunds(s, i) == Goto(s, i, "r_deleteResults", LocIdle)

ResetDeleteFunds(s, i) ==
    Goto(StoreDelete(s, i, FUNDS_KEY), i, "r_deleteResults", LocIdle)

\* reset() deleting the final report as well.
ResetDeleteReportToo(s, i) ==
    Return(StoreDelete(StoreDelete(s, i, RESULTS_KEY), i, CACHE_KEY),
           i, "void", IdleProgress)

ResetDeleteResults(s, i) ==
    Return(StoreDelete(s, i, RESULTS_KEY), i, "void", IdleProgress)

\* ------------------------------------------------------- running a call
\* The step of caller i at the await it is suspended at.
Resume(s, i, answers) ==
    CASE s.pc[i] = "s_putFunds" -> StartPutFunds(s, i)
      [] s.pc[i] = "s_putResults" -> StartPutResults(s, i)
      [] s.pc[i] = "s_putProgress" -> StartPutProgress(s, i)
      [] s.pc[i] = "n_getFunds" -> NextGetFunds(s, i)
      [] s.pc[i] = "n_putError" -> NextPutError(s, i)
      [] s.pc[i] = "n_putCompleted" -> NextPutCompleted(s, i)
      [] s.pc[i] = "f_getResults" -> FinalGetResults(s, i, answers)
      [] s.pc[i] = "f_putReport" -> FinalPutReport(s, i)
      [] s.pc[i] = "n_slice" -> NextProcessSlice(s, i, answers)
      [] s.pc[i] = "n_getResults" -> NextGetResults(s, i)
      [] s.pc[i] = "n_putResults" -> NextPutResults(s, i)
      [] s.pc[i] = "n_putProgress" -> NextPutProgress(s, i)
      [] s.pc[i] = "r_deleteFunds" -> ResetDeleteFunds(s, i)
      [] s.pc[i] = "r_deleteResults" -> ResetDeleteResults(s, i)
      [] OTHER -> s

\* The call of caller i run to its return with no other caller in between.
RECURSIVE RunToReturn(_, _, _)
RunToReturn(s, i, answers) ==
    IF s.pc[i] = "idle" THEN s ELSE RunToReturn(Resume(s, i, answers), i, answers)

\* The funds a processNextBatch call begun now finds in its slice.
NextBatchOf(store) ==
    IF getProgress(store).status = "running" /\ Has(store, FUNDS_KEY)
       /\ SliceStart(getProgress(store)) < Len(store[FUNDS_KEY].value)
    THEN Slice(store[FUNDS_KEY].value, SliceStart(getProgress(store)),
               SliceEnd(getProgress(store), store[FUNDS_KEY].value))
    ELSE <<>>

\* startBatchCalculation(env) by caller i, the upstream answering resp.
StartWith(i, resp) ==
    /\ pc[i] = "idle"
    /\ Becomes(RunToReturn(StartFetchList(Begin(Cur, i, "start"), i, resp), i, <<>>))

startBatchCalculation(i) == \E resp \in ListResponses : StartWith(i, resp)

\* processNextBatch(env) by caller i, the upstream answering the slice.
NextWith(i, answers) ==
    /\ pc[i] = "idle"
    /\ Becomes(RunToReturn(NextGetProgress(Begin(Cur, i, "next"), i), i, answers))

\* A processNextBatch call begun now finds the slices done.
Completing(store) ==
    /\ getProgress(store).status = "running" /\ Has(store, FUNDS_KEY)
    /\ SliceStart(getProgress(store)) >= Len(store[FUNDS_KEY].value)

\* The funds generateFinalResult run now asks the histories of.
TopCount(store) ==
    Len(TopFundsForHistory(FilterPremium(IF Has(store, RESULTS_KEY)
                                         THEN store[RESULTS_KEY].value ELSE <<>>)))

\* What the upstream may answer to a call begun now: to the funds of its
\* slice, or to the history lookups of finalize.
UpstreamAnswers(store, budget) ==
    IF Completing(store) THEN HistoryAnswers(TopCount(store), budget)
    ELSE SliceAnswers(Len(NextBatchOf(store)), budget)

processNextBatch(i) ==
    \E answers \in UpstreamAnswers(kv, MaxFaults - faults) : NextWith(i, answers)

resetProgress(i) ==
    /\ pc[i] = "idle"
    /\ Becomes(RunToReturn(ResetDeleteProgress(Begin(Cur, i, "reset"), i), i, <<>>))

\* ------------------------------------------------------------- expiry
\* Keys of one TTL expire in the order they were put: a run puts the list
\* before the accumulator and the accumulator before the progress.
PutEarlier(key) ==
    CASE key = RESULTS_KEY -> {FUNDS_KEY}
      [] key = PROGRESS_KEY -> {FUNDS_KEY, RESULTS_KEY}
      [] OTHER -> {}

\* The store drops a key whose expirationTtl has run out; between calls, as
\* no call lasts as long as a TTL.
Expire(key) ==
    /\ \A i \in Callers : pc[i] = "idle"
    /\ Has(kv, key)
    /\ kv[key].ttl # NO_TTL
    /\ \A other \in PutEarlier(key) : ~Has(kv, other)
    /\ kv' = Delete(kv, key)
    /\ UNCHANGED <<pc, loc, ret, obs, calls, faults, overlap, net, now>>

\* ------------------------------------------------------ specification
\* One driver serialises its calls: start, nextBatch and reset in any order.
Next ==
    \/ \E i \in Drivers : startBatchCalculation(i)
    \/ \E i \in Drivers : processNextBatch(i)
    \/ \E i \in Drivers : resetProgress(i)
    \/ \E key \in Keys : Expire(key)

Spec == Init /\ [][Next]_vars

\* --------------------------------------------------- reports of a run
\* The valuation dates and closes the upstream answers the funds of a run
\* with, the valuation being 1.000.
ReportDates == {1, 2}

ReportPrices == {950, 1000, 1050, 1100}

ReportAnswers ==
    {[navOk |-> TRUE, nav |-> 1000, navDate |-> d, priceOk |-> TRUE,
      closes |-> <<[date |-> d, value |-> p]>>] :
        d \in ReportDates, p \in ReportPrices}

\* The store as start() and the one nextBatch() of a run over n funds leave
\* it when the upstream answered its funds with answers.
AfterSlices(n, answers) ==
    LET funds == ConvertRecords([c \in 1..n |-> GoodRecord(c)])
        acc == ProcessBatch(funds, answers, 1)
        progress == IF n = 0 THEN StartProgress(0)
                    ELSE AdvanceProgress(StartProgress(n), n, Len(acc))
    IN Put(Put(Put([k \in Keys |-> Absent], FUNDS_KEY, funds, TTL_RUN),
               RESULTS_KEY, acc, TTL_RUN),
           PROGRESS_KEY, progress, TTL_RUN)

\* A run whose slices are done, ahead of the call that completes it.
ReportInit ==
    /\ \E n \in 0..MaxReport : \E answers \in [1..n -> ReportAnswers] :
         /\ kv = AfterSlices(n, answers)
         /\ calls = IF n = 0 THEN 0 ELSE 1
    /\ pc = [i \in Callers |-> "idle"]
    /\ loc = [i \in Callers |-> LocIdle]
    /\ ret = [i \in Callers |-> NoReturn]
    /\ obs = [i \in Callers |-> NoCall]
    /\ faults = MaxFaults
    /\ overlap = FALSE
    /\ net = FreshIsolate
    /\ now = 0

ReportNext ==
    \/ \E i \in Drivers : processNextBatch(i)
    \/ \E i \in Drivers : resetProgress(i)

SpecReport == ReportInit /\ [][ReportNext]_vars

\* ------------------------------------------- the calculator's functions
\* A run over one fund, for the functions that make its record: the names
\* the upstream may list it under, and the valuations and the closes of the
\* valuation date it may answer with (a close of 0 is no close).
CalcNames ==
    { <<"LOF">>, <<"QDII", "LOF">>, <<"huangjin", "LOF">>,
      <<"nasdaq", "yuanyou", "LOF">>, <<"youse", "biaopu">> }

CalcNavs == {-1000, 0, 3, 7, 800, 1000, 10000}

CalcCloses == {0, 1, 801, 950, 1000, 1001, 1050, 9500, 10500}

CalcListResponses ==
    {[diff |-> TRUE, records |-> <<[f12 |-> 1, f14 |-> name, f2 |-> 1020]>>] :
        name \in CalcNames}

CalcAnswers ==
    {[navOk |-> TRUE, nav |-> n, navDate |-> 2, priceOk |-> TRUE,
      closes |-> Closes(p)] : n \in CalcNavs, p \in CalcCloses}

CalcUpstream(store) ==
    IF Completing(store) THEN HistoryAnswers(TopCount(store), 0)
    ELSE [1..Len(NextBatchOf(store)) -> CalcAnswers]

\* One run: the driver starts it and calls nextBatch.
CalcNext ==
    \/ \E i \in Drivers : \E resp \in CalcListResponses :
         ~Has(kv, PROGRESS_KEY) /\ StartWith(i, resp)
    \/ \E i \in Drivers : \E answers \in CalcUpstream(kv) : NextWith(i, answers)

SpecCalc == Init /\ [][CalcNext]_vars

\* ------------------------------------------------ one isolate kept
\* One isolate serves all the requests of the driver, one after the other.
NetInit ==
    /\ kv = [k \in Keys |-> Absent]
    /\ pc = [i \in Callers |-> "idle"]
    /\ loc = [i \in Callers |-> LocIdle]
    /\ ret = [i \in Callers |-> NoReturn]
    /\ obs = [i \in Callers |-> NoCall]
    /\ calls = 0
    /\ faults = 0
    /\ overlap = FALSE
    /\ net = KeptIsolate
    /\ now = 0

NetNext ==
    \/ \E i \in Drivers : startBatchCalculation(i)
    \/ \E i \in Drivers : processNextBatch(i)
    \/ \E i \in Drivers : resetProgress(i)

SpecNet == NetInit /\ [][NetNext]_vars

\* ------------------------------------------------- the awaits one by one
\* Caller i calls an exported function and runs it to its first await.
CallStart(i) ==
    /\ pc[i] = "idle"
    /\ \E resp \in ListResponses :
         Becomes(StartFetchList(Begin(Cur, i, "start"), i, resp))

CallNext(i) ==
    /\ pc[i] = "idle"
    /\ Becomes(NextGetProgress(Begin(Cur, i, "next"), i))

CallReset(i) ==
    /\ pc[i] = "idle"
    /\ Becomes(ResetDeleteProgress(Begin(Cur, i, "reset"), i))

\* The call of caller i goes on from the await it is suspended at; of the
\* answers to a slice at most budget deviate.
StepWith(i, budget) ==
    /\ pc[i] # "idle"
    /\ \E answers \in (CASE pc[i] = "n_slice" ->
                               SliceAnswers(Len(Batch(Cur, i)), budget)
                          [] pc[i] = "f_getResults" ->
                               HistoryAnswers(TopCount(kv), budget)
                          [] OTHER -> {<<>>}) :
         Becomes(Resume(Cur, i, answers))

Step(i) == StepWith(i, MaxFaults - faults)

\* One driver, as the admin page: it awaits each call before the next one.
SeqNext ==
    \/ \E i \in Drivers : CallStart(i)
    \/ \E i \in Drivers : CallNext(i)
    \/ \E i \in Drivers : CallReset(i)
    \/ \E i \in Drivers : Step(i)
    \/ \E key \in Keys : Expire(key)

SpecSeq == Init /\ [][SeqNext]_vars

\* ------------------------------------------- fetchFundNavBatch, calculate
\* The list fetchLOFList returns to calculate(): n funds with their
\* changePercent, in hundredths of a percent.
OnceFunds(n) ==
    [k \in 1..n |-> [code |-> k, name |-> <<"LOF">>, marketPrice |-> 1020,
                     changePercent |-> (k % 5) * 100 * (IF k % 2 = 0 THEN -1 ELSE 1)]]

\* [...allFunds].sort((a, b) => Math.abs(b.changePercent) -
\* Math.abs(a.changePercent)).slice(0, 30): a stable sort.
TopByChange(allFunds) ==
    LET RECURSIVE Insert(_, _)
        Insert(x, sorted) ==
            IF sorted = <<>> THEN <<x>>
            ELSE IF Abs(Head(sorted).changePercent) >= Abs(x.changePercent)
                 THEN <<Head(sorted)>> \o Insert(x, Tail(sorted))
                 ELSE <<x>> \o sorted
        RECURSIVE Sort(_)
        Sort(fs) ==
            IF fs = <<>> THEN <<>>
            ELSE Insert(fs[Len(fs)], Sort(SubSeq(fs, 1, Len(fs) - 1)))
    IN SubSeq(Sort(allFunds), 1, Min(CALC_LIMIT, Len(allFunds)))

\* What the upstream may answer for a fund: the valuation of date 2 and the
\* closes of dates 1 to 3; no valuation; a valuation of date 1; no closes; no
\* close of date 2.
OnceAnswers ==
    { NormalAnswer,
      [navOk |-> FALSE, nav |-> 0, navDate |-> 0, priceOk |-> FALSE, closes |-> <<>>],
      [navOk |-> TRUE, nav |-> 1000, navDate |-> 1, priceOk |-> TRUE,
       closes |-> Closes(1050)],
      [navOk |-> TRUE, nav |-> 1000, navDate |-> 2, priceOk |-> FALSE, closes |-> <<>>],
      [navOk |-> TRUE, nav |-> 1000, navDate |-> 2, priceOk |-> TRUE,
       closes |-> <<[date |-> 1, value |-> 1040], [date |-> 3, value |-> 1060]>>] }

\* NavGroup with one code more.
NavGroupWide(codes, at, concurrency) ==
    {k \in 1..Len(codes) : at < k /\ k <= at + concurrency + 1}

\* codes.slice(i, i + concurrency), as places in codes.
NavGroup(codes, at, concurrency) ==
    {k \in 1..Len(codes) : at < k /\ k <= at + concurrency}

\* The locals of fetchFundNavBatch(codes, concurrency) as its first group is
\* begun: every fetchFundNav of the group is in flight.  entry is the caller,
\* funds the funds of the codes, seen what each request settled with.
NavBatchLocals(entry, market, funds, concurrency) ==
    [entry |-> entry, market |-> market, funds |-> funds,
     concurrency |-> concurrency, at |-> 0,
     flight |-> NavGroup(funds, 0, concurrency), seen |-> <<>>, navMap |-> <<>>]

\* const dataDate = mostCommon(navDates) || ''
DataDate(l) == MostCommonNavDate([j \in 1..Len(l.navMap) |-> l.seen[l.navMap[j]]])

\* FundsWithPremium that takes a valuation of any date.
RECURSIVE FundsWithPremiumAnyDate(_, _)
FundsWithPremiumAnyDate(l, k) ==
    IF k > Len(l.funds) THEN <<>>
    ELSE LET hasNav == \E j \in 1..Len(l.navMap) : l.navMap[j] = k
             price == IF hasNav THEN fetchHistoricalPrice(l.seen[k], DataDate(l))
                      ELSE NoPrice
         IN (IF ~hasNav \/ price = NoPrice
             THEN <<>>
             ELSE <<FundRecord(l.funds[k], l.seen[k], price)>>)
            \o FundsWithPremiumAnyDate(l, k + 1)

\* Steps 4 and 5 of calculate(): the close of dataDate for every code of
\* navMap, then a record for every fund with a valuation of dataDate and a
\* close.
RECURSIVE FundsWithPremium(_, _)
FundsWithPremium(l, k) ==
    IF k > Len(l.funds) THEN <<>>
    ELSE LET hasNav == \E j \in 1..Len(l.navMap) : l.navMap[j] = k
             price == IF hasNav THEN fetchHistoricalPrice(l.seen[k], DataDate(l))
                      ELSE NoPrice
         IN (IF ~hasNav \/ price = NoPrice \/ l.seen[k].navDate # DataDate(l)
             THEN <<>>
             ELSE <<FundRecord(l.funds[k], l.seen[k], price)>>)
            \o FundsWithPremium(l, k + 1)

\* The CalculationResult of calculate(); the histories of the ranked funds
\* are the upstream's normal ones.
CalculationResult(l) ==
    LET fundsWithPremium == FundsWithPremium(l, 1)
        premiumFunds == SortDesc(FilterPremium(fundsWithPremium))
    IN [kind |-> "result",
        funds |-> l.funds, seen |-> l.seen, navMap |-> l.navMap,
        successCount |-> Len(fundsWithPremium),
        failedCount |-> Len(l.funds) - Len(fundsWithPremium),
        premiumFundCount |-> Len(premiumFunds),
        mostCommonNavDate |-> DataDate(l),
        topPremiumFunds |-> premiumFunds,
        premiumHistory |-> Enrich(premiumFunds,
                                  [r \in 1..Len(premiumFunds) |-> NormalHistory]),
        allFunds |-> fundsWithPremium,
        totalFundsInMarket |-> l.market]

\* fetchFundNavBatch returns: to the caller its Map, or into calculate().
NavBatchReturn(s, i, l) ==
    IF l.entry = "batch"
    THEN [s EXCEPT !.pc[i] = "idle", !.loc[i] = LocIdle,
                   !.ret[i] = [kind |-> "navMap", funds |-> l.funds,
                               concurrency |-> l.concurrency,
                               seen |-> l.seen, navMap |-> l.navMap]]
    ELSE [s EXCEPT !.pc[i] = "c_delay", !.loc[i] = l]

\* fetchFundNavBatch(codes, concurrency) is called on its own.
CallNavBatch(i) ==
    /\ pc[i] = "idle"
    /\ \E n \in 0..(MaxVaried + 1), concurrency \in 1..CALC_CONCURRENCY :
         LET l == NavBatchLocals("batch", n, OnceFunds(n), concurrency)
         IN Becomes(IF n = 0 THEN NavBatchReturn(Begin(Cur, i, "navBatch"), i, l)
                    ELSE Goto(Begin(Cur, i, "navBatch"), i, "b_group", l))

\* calculate() is called: the list, the sort, and fetchFundNavBatch(codes, 3).
CallCalculate(i) ==
    /\ pc[i] = "idle"
    /\ \E n \in {0, 2, MaxVaried + 1, CALC_LIMIT + 1} :
         LET funds == TopByChange(OnceFunds(n))
             l == NavBatchLocals("calculate", n, funds, CALC_CONCURRENCY)
         IN Becomes(IF n = 0 THEN NavBatchReturn(Begin(Cur, i, "calculate"), i, l)
                    ELSE Goto(Begin(Cur, i, "calculate"), i, "b_group", l))

\* One fetchFundNav of the group in flight settles.
NavSettle(i) ==
    /\ pc[i] = "b_group"
    /\ \E k \in loc[i].flight :
         \E a \in (IF k <= MaxVaried THEN OnceAnswers ELSE {NormalAnswer}) :
            Becomes(Goto(Cur, i, "b_group",
                         [loc[i] EXCEPT !.flight = @ \ {k},
                                        !.seen = [j \in DOMAIN @ \cup {k} |->
                                                    IF j = k THEN a ELSE @[j]]]))

\* await Promise.all(promises) is through: the valuations of the group go
\* into the Map in the order of the codes; then the delay before the next
\* group, or the return.
NavCollect(i) ==
    /\ pc[i] = "b_group"
    /\ loc[i].flight = {}
    /\ LET l == loc[i]
           group == NavGroup(l.funds, l.at, l.concurrency)
           found == SelectSeq([k \in 1..Len(l.funds) |-> k],
                              LAMBDA k : k \in group /\ l.seen[k].navOk)
           after == [l EXCEPT !.navMap = @ \o found]
       IN Becomes(IF l.at + l.concurrency < Len(l.funds)
                  THEN Goto(Cur, i, "b_delay", after)
                  ELSE NavBatchReturn(Cur, i, after))

\* The delay between two groups is over: the next group is begun.
NavNextGroup(i) ==
    /\ pc[i] = "b_delay"
    /\ LET l == loc[i]
       IN Becomes(Goto(Cur, i, "b_group",
                       [l EXCEPT !.at = l.at + l.concurrency,
                                 !.flight = NavGroup(l.funds, l.at + l.concurrency,
                                                     l.concurrency)]))

\* calculate() after the valuations: the closes one by one, the records,
\* the counts, the histories.
CalculateRest(i) ==
    /\ pc[i] = "c_delay"
    /\ Becomes([Cur EXCEPT !.pc[i] = "idle", !.loc[i] = LocIdle,
                           !.ret[i] = CalculationResult(loc[i])])

OnceNext ==
    \/ \E i \in Drivers : CallNavBatch(i)
    \/ \E i \in Drivers : CallCalculate(i)
    \/ \E i \in Drivers : NavSettle(i)
    \/ \E i \in Drivers : NavCollect(i)
    \/ \E i \in Drivers : NavNextGroup(i)
    \/ \E i \in Drivers : CalculateRest(i)

SpecOnce == Init /\ [][OnceNext]_vars

\* ---------------------------------------------------------- fetchLOFList
\* Records of every kind: with and without code and name, of a bond or
\* money-market fund, without a price, and at prices of 0, 0.4, 0.5, 1.02,
\* 100 and 100.001.
FilterRecords ==
    {[f12 |-> c, f14 |-> name, f2 |-> price] :
        c \in {0, 1, 2},
        name \in {<<>>, <<"LOF">>, <<"huobi", "LOF">>},
        price \in {-1, 0, 400, 500, 1020, 100000, 100001}}

FilterResponses ==
    {[diff |-> TRUE, records |-> records] :
        records \in {<<r>> : r \in FilterRecords} \cup (FilterRecords \X FilterRecords)}

\* const funds = await fetchLOFList(), once.
CallList(i) ==
    /\ ret[i] = NoReturn
    /\ \E resp \in FilterResponses :
         ret' = [ret EXCEPT ![i] = [kind |-> "list", records |-> resp.records,
                                    funds |-> fetchLOFList(resp).funds]]
    /\ UNCHANGED <<kv, pc, loc, obs, calls, faults, overlap, net, now>>

ListNext == \E i \in Drivers : CallList(i)

SpecList == Init /\ [][ListNext]_vars

\* ------------------------------------------------------ getNavDelayDays
\* A date string "YYYY-MM-DD" is the tuple <<year, month, day>> of its parts;
\* instants and Date.UTC values are in hours since 2024-01-01T00:00Z.
EpochYear == 2024

MonthLength(year, month) ==
    IF month = 2
    THEN IF year % 4 = 0 /\ (year % 100 # 0 \/ year % 400 = 0) THEN 29 ELSE 28
    ELSE IF month \in {4, 6, 9, 11} THEN 30 ELSE 31

YearLength(year) == 337 + MonthLength(year, 2)

\* Date.UTC(year, monthIndex, day): the instant of that date's midnight; a
\* day past the month's end runs on into the next months.
DateUTC(year, monthIndex, day) ==
    LET RECURSIVE BeforeYear(_)
        BeforeYear(y) ==
            IF y = EpochYear THEN 0
            ELSE IF y > EpochYear THEN BeforeYear(y - 1) + YearLength(y - 1)
            ELSE BeforeYear(y + 1) - YearLength(y)
        RECURSIVE BeforeMonth(_)
        BeforeMonth(m) ==
            IF m = 0 THEN 0 ELSE BeforeMonth(m - 1) + MonthLength(year, m)
    IN 24 * (BeforeYear(year) + BeforeMonth(monthIndex) + day - 1)

\* date.toISOString().split('T')[0]: the UTC date an instant falls on.
toISODate(instant) ==
    LET RECURSIVE InMonth(_, _, _)
        InMonth(y, m, d) ==
            IF d > MonthLength(y, m) THEN InMonth(y, m + 1, d - MonthLength(y, m))
            ELSE <<y, m, d>>
        RECURSIVE InYear(_, _)
        InYear(y, d) ==
            IF d > YearLength(y) THEN InYear(y + 1, d - YearLength(y))
            ELSE InMonth(y, 1, d)
    IN InYear(EpochYear, instant \div 24 + 1)

\* getNavDelayDays with today taken as the UTC date.
getNavDelayDaysUTC(navDate, instant) ==
    LET todayStr == toISODate(instant)
    IN (DateUTC(todayStr[1], todayStr[2] - 1, todayStr[3])
          - DateUTC(navDate[1], navDate[2] - 1, navDate[3])) \div 24

getNavDelayDays(navDate, instant) ==
    LET beijingNow == instant + 8
        todayStr == toISODate(beijingNow)
        navDays == DateUTC(navDate[1], navDate[2] - 1, navDate[3])
        todayDays == DateUTC(todayStr[1], todayStr[2] - 1, todayStr[3])
    IN (todayDays - navDays) \div 24

\* The instants of the days at the beginning of the year and around the end
\* of February, and valuation dates about them.
Instants == (0 .. 24 * 2 - 1) \cup (24 * 58 .. 24 * 61 - 1)

NavDates ==
    { <<2023, 12, 29>>, <<2023, 12, 31>>, <<2024, 1, 1>>, <<2024, 1, 2>>,
      <<2024, 2, 28>>, <<2024, 2, 29>>, <<2024, 3, 1>>, <<2024, 3, 2>> }

DelayInit ==
    /\ kv = [k \in Keys |-> Absent]
    /\ pc = [i \in Callers |-> "idle"]
    /\ loc = [i \in Callers |-> LocIdle]
    /\ ret = [i \in Callers |-> NoReturn]
    /\ obs = [i \in Callers |-> NoCall]
    /\ calls = 0
    /\ faults = 0
    /\ overlap = FALSE
    /\ net = FreshIsolate
    /\ now \in Instants

\* An hour passes.
Tick ==
    /\ now + 1 \in Instants
    /\ now' = now + 1
    /\ UNCHANGED <<kv, pc, loc, ret, obs, calls, faults, overlap, net>>

\* const navDelayDays = getNavDelayDays(nav.navDate)
CallDelay(i) ==
    /\ \E navDate \in NavDates :
         ret' = [ret EXCEPT ![i] = [kind |-> "days", navDate |-> navDate, at |-> now,
                                    days |-> getNavDelayDays(navDate, now)]]
    /\ UNCHANGED <<kv, pc, loc, obs, calls, faults, overlap, net, now>>

DelayNext ==
    \/ Tick
    \/ \E i \in Drivers : CallDelay(i)

SpecDelay == DelayInit /\ [][DelayNext]_vars

\* The platform terminates the invocation of caller i at the await it is
\* suspended at (its time or subrequest limit), or the awaited call throws:
\* nothing after that await is run.
Terminate(i) ==
    /\ pc[i] # "idle"
    /\ faults < MaxFaults
    /\ Becomes([Return(Cur, i, "terminated", IdleProgress)
                   EXCEPT !.faults = @ + 1])

\* One run under one driver, the upstream answering every fund, with
\* invocations that may be terminated.
KillNext ==
    \/ \E i \in Drivers : ~Has(kv, PROGRESS_KEY) /\ CallStart(i)
    \/ \E i \in Drivers : CallNext(i)
    \/ \E i \in Drivers : StepWith(i, 0)
    \/ \E i \in Drivers : Terminate(i)

SpecKill == Init /\ [][KillNext]_vars

\* The first caller drives nextBatch(); the second calls start() for the
\* first run and once more while a nextBatch() invocation is in flight.  The
\* upstream answers every fund.
RaceNext ==
    \/ CallNext(1)
    \/ StepWith(1, 0)
    \/ /\ \/ ~Has(kv, PROGRESS_KEY)
          \/ pc[1] # "idle" /\ ~overlap
       /\ CallStart(2)
    \/ StepWith(2, 0)

SpecRace == Init /\ [][RaceNext]_vars

\* One run under two callers, as two pages driving the routes at once: the
\* driver starts the run, both call nextBatch, and the awaits of their calls
\* interleave.  The upstream answers every fund.
ConcNext ==
    \/ \E i \in Drivers : ~Has(kv, PROGRESS_KEY) /\ CallStart(i)
    \/ \E i \in Callers : CallNext(i)
    \/ \E i \in Callers : StepWith(i, 0)

SpecConc == Init /\ [][ConcNext]_vars

\* ================================================================ claims
\* The persisted status, and the steps of the exported functions.
Status(store) == getProgress(store).status

IsStart == \E i \in Callers : startBatchCalculation(i)

IsNext == \E i \in Callers : processNextBatch(i)

IsReset == \E i \in Callers : resetProgress(i)

\* C1: after start() and k >= 1 serialised nextBatch() calls with the status
\* still running, processedFunds = min(k * 10, F) and
\* currentBatch = ceil(processedFunds / 10), F being the size of the list.
C1_ProgressAfterCalls ==
    (Has(kv, PROGRESS_KEY) /\ Status(kv) = "running" /\ calls >= 1
     /\ \A i \in Callers : pc[i] = "idle")
    => LET p == kv[PROGRESS_KEY].value
       IN /\ p.processedFunds =
                IF calls * 10 < p.totalFunds THEN calls * 10 ELSE p.totalFunds
          /\ p.currentBatch * 10 >= p.processedFunds
          /\ p.currentBatch * 10 < p.processedFunds + 10

C1_Witness ==
    /\ Has(kv, PROGRESS_KEY) /\ Status(kv) = "running" /\ pc[1] = "idle"
    /\ calls = 2
    /\ kv[PROGRESS_KEY].value.totalFunds = MaxFunds
    /\ kv[PROGRESS_KEY].value.processedFunds = MaxFunds

\* C2: nextBatch() called while the persisted status is not running returns
\* the current progress, leaves every key of the store as it is, writes
\* nothing and sends nothing upstream.
C2_NotRunningIsNoOp ==
    [][\A i \in Callers :
         (Status(kv) # "running" /\ processNextBatch(i))
         => /\ kv' = kv
            /\ ret'[i] = [kind |-> "progress", progress |-> getProgress(kv)]
            /\ obs'[i].writes = 0
            /\ ~obs'[i].upstream]_vars

C2_Witness ==
    /\ obs[1].op = "next" /\ obs[1].writes = 0 /\ ~obs[1].upstream
    /\ ret[1].kind = "progress" /\ ret[1].progress.status = "completed"
    /\ Has(kv, CACHE_KEY) /\ Status(kv) = "completed"

C4_StartPersists ==
    [][\A i \in Callers :
         (pc[i] = "idle" /\ obs'[i].op = "start" /\ ret'[i].kind = "progress"
          /\ ~\E key \in Keys : Expire(key))
         => \E resp \in ListResponses :
              LET F == Len(ConvertRecords(resp.records))
                  p == kv'[PROGRESS_KEY].value
              IN /\ resp.diff
                 /\ Has(kv', FUNDS_KEY)
                 /\ kv'[FUNDS_KEY].value = ConvertRecords(resp.records)
                 /\ Has(kv', RESULTS_KEY) /\ kv'[RESULTS_KEY].value = <<>>
                 /\ Has(kv', PROGRESS_KEY)
                 /\ p.status = "running" /\ p.totalFunds = F
                 /\ p.processedFunds = 0 /\ p.currentBatch = 0
                 /\ p.successCount = 0
                 /\ p.totalBatches * 10 >= F /\ p.totalBatches * 10 < F + 10
                 /\ ret'[i] = [kind |-> "progress", progress |-> p]]_vars

C4_Witness ==
    /\ obs[1].op = "start" /\ obs[1].writes = 3 /\ ret[1].kind = "progress"
    /\ Has(kv, CACHE_KEY) /\ kv[CACHE_KEY].value.successCount > 0
    /\ Has(kv, RESULTS_KEY) /\ kv[RESULTS_KEY].value = <<>>
    /\ Has(kv, PROGRESS_KEY) /\ kv[PROGRESS_KEY].value.totalFunds = MaxFunds
    /\ kv[PROGRESS_KEY].value.totalBatches = 2

\* A list response with no record that passes the filters.
NoUsableRecord(resp) ==
    ~resp.diff \/ \A k \in 1..Len(resp.records) : ~Usable(resp.records[k])

\* C5: start() fails whenever the upstream yields no usable fund record, and
\* a failed start() leaves the store as it was.
C5_NoUsableRecordFails ==
    [][\A i \in Callers : \A resp \in ListResponses :
         (NoUsableRecord(resp) /\ StartWith(i, resp))
         => (ret'[i].kind = "error" /\ kv' = kv)]_vars

\* C6: nextBatch() called with status running and currentBatch * 10 >= the
\* length of the persisted list persists completed with completedAt, stores
\* the final report before it returns, returns the completed progress, and
\* changes neither the accumulator nor currentBatch and processedFunds.
C6_Completion ==
    [][\A i \in Callers :
         (/\ Status(kv) = "running"
          /\ Has(kv, FUNDS_KEY)
          /\ getProgress(kv).currentBatch * 10 >= Len(kv[FUNDS_KEY].value)
          /\ processNextBatch(i))
         => LET p == getProgress(kv)
                acc == IF Has(kv, RESULTS_KEY) THEN kv[RESULTS_KEY].value ELSE <<>>
            IN /\ Has(kv', PROGRESS_KEY)
               /\ kv'[PROGRESS_KEY].value =
                     [p EXCEPT !.status = "completed", !.completedAt = TRUE]
               /\ ret'[i] = [kind |-> "progress",
                              progress |-> kv'[PROGRESS_KEY].value]
               /\ kv'[RESULTS_KEY] = kv[RESULTS_KEY]
               /\ kv'[FUNDS_KEY] = kv[FUNDS_KEY]
               /\ Has(kv', CACHE_KEY)
               /\ kv'[CACHE_KEY].value.allFunds = acc
               /\ kv'[CACHE_KEY].value.successCount = Len(acc)
               /\ obs'[i].writes = 2]_vars

C6_Witness ==
    /\ obs[1].op = "next" /\ obs[1].writes = 2
    /\ ret[1].kind = "progress" /\ ret[1].progress.status = "completed"
    /\ ret[1].progress.completedAt
    /\ ret[1].progress.totalFunds = MaxFunds
    /\ Has(kv, CACHE_KEY) /\ kv[CACHE_KEY].value.successCount = MaxFunds - 1

\* The bounds C7 puts on a progress record.
WithinBounds(p) ==
    /\ 0 <= p.processedFunds /\ p.processedFunds <= p.totalFunds
    /\ 0 <= p.currentBatch /\ p.currentBatch <= p.totalBatches
    /\ p.totalBatches * 10 >= p.totalFunds
    /\ p.totalBatches * 10 < p.totalFunds + 10

OkCodes(batch, answers) ==
    LET ok == {k \in 1..Len(batch) : answers[k].navOk /\ answers[k].priceOk}
    IN [j \in 1..Cardinality(ok) |->
          batch[CHOOSE k \in ok : Cardinality({m \in ok : m < k}) = j - 1].code]

\* C9: after every nextBatch() call that processes a slice, the persisted
\* successCount is the length of the persisted accumulator, and the
\* accumulator is its previous content followed by the slice's successful
\* funds.
C9_AccumulatorGrows ==
    [][\A i \in Callers :
         (obs'[i].op = "next" /\ pc[i] = "idle" /\ NextBatchOf(kv) # <<>>)
         => \A answers \in SliceAnswers(Len(NextBatchOf(kv)), MaxFaults - faults) :
              NextWith(i, answers)
              => LET prev == IF Has(kv, RESULTS_KEY) THEN kv[RESULTS_KEY].value
                             ELSE <<>>
                     acc == kv'[RESULTS_KEY].value
                 IN /\ Has(kv', RESULTS_KEY) /\ Has(kv', PROGRESS_KEY)
                    /\ kv'[PROGRESS_KEY].value.successCount = Len(acc)
                    /\ Len(acc) >= Len(prev)
                    /\ SubSeq(acc, 1, Len(prev)) = prev
                    /\ [j \in 1..(Len(acc) - Len(prev)) |-> acc[Len(prev) + j].code]
                         = OkCodes(NextBatchOf(kv), answers)]_vars

C9_Witness ==
    /\ obs[1].op = "next" /\ obs[1].writes = 2 /\ Status(kv) = "running"
    /\ Has(kv, RESULTS_KEY) /\ Len(kv[RESULTS_KEY].value) = MaxFunds - 1
    /\ kv[PROGRESS_KEY].value.successCount = MaxFunds - 1
    /\ kv[PROGRESS_KEY].value.currentBatch = 2
    /\ kv[RESULTS_KEY].value[1].code = 1

\* C10: reset() deletes the persisted list, accumulator and progress from any
\* state, also when they are absent; getProgress() then answers idle with
\* all counters 0; a second reset() changes nothing.
C10_Reset ==
    [][\A i \in Callers :
         resetProgress(i)
         => /\ ~Has(kv', PROGRESS_KEY) /\ ~Has(kv', FUNDS_KEY)
            /\ ~Has(kv', RESULTS_KEY)
            /\ kv'[CACHE_KEY] = kv[CACHE_KEY]
            /\ getProgress(kv').status = "idle"
            /\ getProgress(kv').totalFunds = 0
            /\ getProgress(kv').processedFunds = 0
            /\ getProgress(kv').currentBatch = 0
            /\ getProgress(kv').totalBatches = 0
            /\ getProgress(kv').successCount = 0
            /\ ret'[i].kind = "void"
            /\ (~Has(kv, PROGRESS_KEY) /\ ~Has(kv, FUNDS_KEY)
                /\ ~Has(kv, RESULTS_KEY)) => kv' = kv]_vars

C10_Witness ==
    /\ obs[1].op = "reset" /\ obs[1].writes = 3 /\ ret[1].kind = "void"
    /\ ~Has(kv, PROGRESS_KEY) /\ ~Has(kv, FUNDS_KEY) /\ ~Has(kv, RESULTS_KEY)
    /\ Has(kv, CACHE_KEY)
    /\ calls = 2

\* The last call of caller i returned a running progress: to i, a run is
\* under way.
RunUnderWay(i) == ret[i].kind = "progress" /\ ret[i].progress.status = "running"

\* C11 as stated: nextBatch() called during a run with the persisted list
\* or the persisted progress missing persists the status error with a
\* message and returns that progress.
C11_AsStated ==
    [][\A i \in Callers :
         (RunUnderWay(i) /\ (~Has(kv, FUNDS_KEY) \/ ~Has(kv, PROGRESS_KEY))
          /\ processNextBatch(i))
         => /\ Status(kv') = "error"
            /\ kv'[PROGRESS_KEY].value.error # ""
            /\ ret'[i] = [kind |-> "progress",
                           progress |-> kv'[PROGRESS_KEY].value]]_vars

\* C11 amended: nextBatch() called with the persisted status running and the
\* persisted list missing persists the same progress with the status error
\* and a message, and returns it; called with the persisted progress
\* missing it answers the idle progress and writes nothing.
C11_MissingList ==
    [][\A i \in Callers :
         /\ (Status(kv) = "running" /\ ~Has(kv, FUNDS_KEY) /\ processNextBatch(i))
            => /\ Has(kv', PROGRESS_KEY)
               /\ kv'[PROGRESS_KEY].value.status = "error"
               /\ kv'[PROGRESS_KEY].value.error # ""
               /\ [kv'[PROGRESS_KEY].value EXCEPT !.status = "running", !.error = ""]
                    = kv[PROGRESS_KEY].value
               /\ ret'[i] = [kind |-> "progress",
                              progress |-> kv'[PROGRESS_KEY].value]
               /\ obs'[i].writes = 1
               /\ \A key \in Keys \ {PROGRESS_KEY} : kv'[key] = kv[key]
         /\ (~Has(kv, PROGRESS_KEY) /\ processNextBatch(i))
            => /\ kv' = kv
               /\ ret'[i] = [kind |-> "progress", progress |-> IdleProgress]
               /\ obs'[i].writes = 0]_vars

C11_Witness ==
    /\ Status(kv) = "error" /\ kv[PROGRESS_KEY].value.error # ""
    /\ obs[1].op = "next" /\ obs[1].writes = 1
    /\ ret[1].kind = "progress" /\ ret[1].progress = kv[PROGRESS_KEY].value
    /\ ret[1].progress.processedFunds = BATCH_SIZE
    /\ ~Has(kv, FUNDS_KEY)

C13_Sequential ==
    [][\A i \in Drivers :
         /\ (pc[i] = "n_putProgress" /\ pc'[i] = "idle")
            => /\ Has(kv', RESULTS_KEY)
               /\ kv'[RESULTS_KEY].value = loc[i].existing
               /\ Has(kv', PROGRESS_KEY)
               /\ kv'[PROGRESS_KEY].value = ret'[i].progress
               /\ ret'[i].progress.currentBatch = loc[i].progress.currentBatch + 1
               /\ ret'[i].progress.successCount = Len(loc[i].existing)
         /\ (pc[i] = "n_slice" /\ pc'[i] # "n_slice")
            => /\ Has(kv, PROGRESS_KEY)
               /\ kv[PROGRESS_KEY].value = loc[i].progress
               /\ kv[PROGRESS_KEY].value.processedFunds
                    = loc[i].progress.currentBatch * 10
               /\ Has(kv, RESULTS_KEY)
               /\ Len(kv[RESULTS_KEY].value) = kv[PROGRESS_KEY].value.successCount]_vars

C13_Witness ==
    /\ pc[1] = "n_slice"
    /\ loc[1].progress.currentBatch = 1
    /\ Has(kv, PROGRESS_KEY) /\ kv[PROGRESS_KEY].value.currentBatch = 1
    /\ kv[PROGRESS_KEY].value.processedFunds = BATCH_SIZE
    /\ Has(kv, RESULTS_KEY) /\ Len(kv[RESULTS_KEY].value) = BATCH_SIZE - 1

\* No fund is twice in the accumulator acc.
NoFundTwice(acc) ==
    \A j, k \in 1..Len(acc) : acc[j].code = acc[k].code => j = k

\* C14: nextBatch() has no guard against overlapping invocations.  As long
\* as no two calls have overlapped, no fund is twice in the accumulator and
\* successCount <= processedFunds <= totalFunds; two overlapping invocations
\* that read the same currentBatch both append the slice, and both fail.
C14_UnlessOverlapped ==
    ~overlap
    => /\ Has(kv, RESULTS_KEY) => NoFundTwice(kv[RESULTS_KEY].value)
       /\ Has(kv, PROGRESS_KEY)
          => /\ kv[PROGRESS_KEY].value.successCount
                  <= kv[PROGRESS_KEY].value.processedFunds
             /\ kv[PROGRESS_KEY].value.processedFunds
                  <= kv[PROGRESS_KEY].value.totalFunds

C14_Witness ==
    /\ overlap /\ pc[1] = "idle" /\ pc[2] = "idle"
    /\ obs[1].op = "next" /\ obs[2].op = "next"
    /\ ret[1].progress.currentBatch = 1 /\ ret[2].progress.currentBatch = 1
    /\ Has(kv, RESULTS_KEY) /\ ~NoFundTwice(kv[RESULTS_KEY].value)
    /\ Len(kv[RESULTS_KEY].value) = 2 * BATCH_SIZE
    /\ Has(kv, PROGRESS_KEY)
    /\ kv[PROGRESS_KEY].value.successCount > kv[PROGRESS_KEY].value.processedFunds
    /\ kv[PROGRESS_KEY].value.successCount > kv[PROGRESS_KEY].value.totalFunds

\* C15: the accumulator and the progress are read, changed and written back
\* without protection.  As long as no two calls have overlapped, a write of
\* nextBatch() never lowers the persisted currentBatch or processedFunds and
\* never drops an entry of the accumulator; the write of an overlapping
\* invocation does both.
C15_UnlessOverlapped ==
    [][~overlap'
       => /\ (Has(kv, PROGRESS_KEY) /\ Has(kv', PROGRESS_KEY)
              /\ \A i \in Callers : pc[i] # "s_putProgress")
             => /\ kv'[PROGRESS_KEY].value.currentBatch
                     >= kv[PROGRESS_KEY].value.currentBatch
                /\ kv'[PROGRESS_KEY].value.processedFunds
                     >= kv[PROGRESS_KEY].value.processedFunds
          /\ (Has(kv, RESULTS_KEY) /\ Has(kv', RESULTS_KEY)
              /\ \A i \in Callers : pc[i] # "s_putResults")
             => /\ Len(kv'[RESULTS_KEY].value) >= Len(kv[RESULTS_KEY].value)
                /\ SubSeq(kv'[RESULTS_KEY].value, 1, Len(kv[RESULTS_KEY].value))
                     = kv[RESULTS_KEY].value]_vars

C15_Witness ==
    /\ overlap /\ pc[1] = "idle" /\ pc[2] = "idle"
    /\ obs[1].op = "next" /\ obs[2].op = "next"
    /\ Status(kv) = "running"
    /\ ret[1].kind = "progress" /\ ret[1].progress.status = "running"
    /\ kv[PROGRESS_KEY].value.currentBatch < ret[1].progress.currentBatch
    /\ kv[PROGRESS_KEY].value.processedFunds < ret[1].progress.processedFunds
    /\ Has(kv, RESULTS_KEY)
    /\ Len(kv[RESULTS_KEY].value) < ret[1].progress.successCount

\* The report in the store.
Report == kv[CACHE_KEY].value

\* The index at which the valuation date d first appears in fs.
FirstOf(fs, d) ==
    CHOOSE k \in 1..Len(fs) :
        fs[k].navDate = d /\ \A j \in 1..(k - 1) : fs[j].navDate # d

\* The funds of fs valued at d.
Valued(fs, d) == {k \in 1..Len(fs) : fs[k].navDate = d}

\* C16: mostCommonNavDate of a report is the valuation date most funds of
\* the report have; of the dates with that count, the one that appears first;
\* the empty string when there is no fund.
C16_MostCommon ==
    Has(kv, CACHE_KEY)
    => IF Report.allFunds = <<>> THEN Report.mostCommonNavDate = 0
       ELSE LET fs == Report.allFunds
                d == Report.mostCommonNavDate
            IN /\ \E k \in 1..Len(fs) : fs[k].navDate = d
               /\ \A j \in 1..Len(fs) :
                    /\ Cardinality(Valued(fs, fs[j].navDate))
                         <= Cardinality(Valued(fs, d))
                    /\ Cardinality(Valued(fs, fs[j].navDate))
                         = Cardinality(Valued(fs, d))
                       => FirstOf(fs, d) <= FirstOf(fs, fs[j].navDate)

C16_Witness ==
    /\ Has(kv, CACHE_KEY)
    /\ Len(Report.allFunds) = 2
    /\ Report.allFunds[1].navDate = 2 /\ Report.allFunds[2].navDate = 1
    /\ Report.mostCommonNavDate = 2

\* C17: in the report finalize stores, every fund of allFunds and of
\* topPremiumFunds has the navDate that is the report's mostCommonNavDate.
C17_OneValuationDate ==
    Has(kv, CACHE_KEY)
    => /\ \A k \in 1..Len(Report.allFunds) :
            Report.allFunds[k].navDate = Report.mostCommonNavDate
       /\ \A k \in 1..Len(Report.topPremiumFunds) :
            Report.topPremiumFunds[k].navDate = Report.mostCommonNavDate

\* C18: topPremiumFunds of a report is the funds of allFunds with
\* premiumRate > 0, by non-increasing premiumRate, funds of one premiumRate
\* in their allFunds order; premiumFundCount is its length.
C18_Ranking ==
    Has(kv, CACHE_KEY)
    => LET fs == Report.allFunds
           top == Report.topPremiumFunds
           premium == {k \in 1..Len(fs) : fs[k].premiumRate > 0}
       IN /\ Report.premiumFundCount = Len(top)
          /\ Len(top) = Cardinality(premium)
          /\ \E at \in [1..Len(top) -> premium] :
               /\ \A r \in 1..Len(top) : top[r] = fs[at[r]]
               /\ \A q, r \in 1..Len(top) :
                    q < r => /\ at[q] # at[r]
                             /\ top[q].premiumRate >= top[r].premiumRate
                             /\ top[q].premiumRate = top[r].premiumRate
                                => at[q] < at[r]

C18_Witness ==
    /\ Has(kv, CACHE_KEY)
    /\ Len(Report.allFunds) = 3 /\ Report.premiumFundCount = 3
    /\ Report.topPremiumFunds[1] = Report.allFunds[2]
    /\ Report.topPremiumFunds[2] = Report.allFunds[1]
    /\ Report.topPremiumFunds[3] = Report.allFunds[3]
    /\ Report.allFunds[1].premiumRate = Report.allFunds[3].premiumRate
    /\ Report.allFunds[1].navDate # Report.allFunds[3].navDate

\* The dates of the entries of a premiumHistory.
DatesOf(entries) == {entries[k].date : k \in 1..Len(entries)}

\* C19: after finalize, premiumHistory is present on none but the first 10
\* funds of the ranking; a premiumHistory has at most 10 entries, in strictly
\* ascending date order, one for each of the most recent dates that have a
\* valuation and a close with the valuation above 0.
C19_PremiumHistory ==
    [][\A i \in Callers :
         (pc[i] = "idle" /\ obs'[i].op = "next" /\ Completing(kv))
         => \A answers \in UpstreamAnswers(kv, MaxFaults - faults) :
              NextWith(i, answers)
              => LET top == kv'[CACHE_KEY].value.topPremiumFunds
                     h == kv'[CACHE_KEY].value.premiumHistory
                 IN /\ DOMAIN h = 1..Len(top)
                    /\ \A r \in 1..Len(top) :
                         h[r].present
                         => LET e == h[r].entries
                                nav == fetchFundNavHistory(answers[r], 10)
                                price == fetchHistoricalPrices(answers[r], 10)
                                both == {d \in DOMAIN nav \cap DOMAIN price : nav[d] > 0}
                            IN /\ r <= 10
                               /\ Len(e) <= 10
                               /\ \A j, k \in 1..Len(e) : j < k => e[j].date < e[k].date
                               /\ DatesOf(e) \subseteq both
                               /\ \A d \in both \ DatesOf(e) :
                                    /\ Len(e) = 10
                                    /\ \A k \in 1..Len(e) : d < e[k].date
                               /\ \A k \in 1..Len(e) :
                                    /\ e[k].nav = nav[e[k].date]
                                    /\ e[k].price = price[e[k].date]]_vars

C19_Witness ==
    /\ Has(kv, CACHE_KEY)
    /\ Len(Report.topPremiumFunds) = HISTORY_TOP + 1
    /\ Report.premiumHistory[HISTORY_TOP].present
    /\ ~Report.premiumHistory[HISTORY_TOP + 1].present
    /\ Len(Report.premiumHistory[1].entries) = 10
    /\ Report.premiumHistory[1].entries[1].date = 3
    /\ Len(Report.premiumHistory[2].entries) = 3

\* C20: a history lookup that fails for one of the top 10 funds does not
\* abort finalize: the report is stored, the other top funds have their
\* premiumHistory, and the premiumHistory of the fund it failed for is absent.
C20_FailedHistoryAbsent ==
    [][\A i \in Callers :
         (pc[i] = "idle" /\ obs'[i].op = "next" /\ Completing(kv))
         => \A answers \in UpstreamAnswers(kv, MaxFaults - faults) :
              NextWith(i, answers)
              => /\ Has(kv', CACHE_KEY)
                 /\ \A r \in 1..Len(answers) :
                      kv'[CACHE_KEY].value.premiumHistory[r].present
                        = (answers[r].navOk /\ answers[r].priceOk)]_vars

\* The funds of the list that are not in the accumulator acc.
Skipped(funds, acc) ==
    {k \in 1..Len(funds) :
       \A j \in 1..Len(acc) : acc[j].code # funds[k].code}

\* C21: in the report the completing call of a run under one driver stores,
\* successCount is the length of the accumulator, failedCount is totalFunds
\* minus successCount, every fund of the list that was skipped (it is not in
\* the accumulator) counts once in failedCount, and
\* 0 <= failedCount <= totalFunds.
C21_ReportCounts ==
    [][\A i \in Drivers :
         (Completing(kv) /\ obs'[i].op = "next" /\ Status(kv') = "completed")
         => LET report == kv'[CACHE_KEY].value
                total == kv[PROGRESS_KEY].value.totalFunds
            IN /\ Has(kv', CACHE_KEY)
               /\ report.successCount = Len(kv[RESULTS_KEY].value)
               /\ report.allFunds = kv[RESULTS_KEY].value
               /\ report.failedCount = total - report.successCount
               /\ total = Len(kv[FUNDS_KEY].value)
               /\ report.failedCount
                    = Cardinality(Skipped(kv[FUNDS_KEY].value,
                                          kv[RESULTS_KEY].value))
               /\ 0 <= report.failedCount
               /\ report.failedCount <= total]_vars

C21_Witness ==
    /\ Has(kv, CACHE_KEY) /\ Status(kv) = "completed"
    /\ kv[PROGRESS_KEY].value.totalFunds = MaxFunds
    /\ Report.failedCount = 1 /\ Report.successCount = MaxFunds - 1
    /\ obs[1].op = "next" /\ obs[1].writes = 2

\* C27: the final-report key is written by the pipeline only in the
\* nextBatch() call that takes the run to completed: start(), reset(), the
\* nextBatch() calls that process a slice, that persist the error and that do
\* nothing leave a stored report as it is.  Apart from the completing call,
\* the key changes only when the store expires it.
C27_ReportFrame ==
    [][kv'[CACHE_KEY] # kv[CACHE_KEY]
       => \/ \E i \in Callers :
               /\ Completing(kv) /\ pc[i] = "idle" /\ obs'[i].op = "next"
               /\ Status(kv') = "completed"
          \/ /\ kv' = [kv EXCEPT ![CACHE_KEY] = Absent]
             /\ kv[CACHE_KEY].ttl # NO_TTL
             /\ UNCHANGED <<pc, loc, ret, obs, calls, faults, overlap, net, now>>]_vars

C27_Witness ==
    /\ Has(kv, CACHE_KEY) /\ Report.successCount = MaxFunds
    /\ Status(kv) = "error"
    /\ obs[1].op = "next" /\ obs[1].writes = 1

\* C28: a driver that calls start() and then nextBatch() again and again,
\* one call at a time, comes to an end: every nextBatch() call that finds the
\* run running either advances currentBatch by one or takes the status out
\* of running, and after totalBatches + 1 such calls at the latest the status
\* is no longer running.
C28_Terminates ==
    [][\A i \in Drivers :
         (Status(kv) = "running" /\ pc[i] = "idle" /\ calls' = calls + 1)
         => /\ obs'[i].op = "next"
            /\ \/ Status(kv') # "running"
               \/ /\ Has(kv', PROGRESS_KEY)
                  /\ kv'[PROGRESS_KEY].value.currentBatch
                       = kv[PROGRESS_KEY].value.currentBatch + 1
            /\ calls' <= kv[PROGRESS_KEY].value.totalBatches + 1
            /\ Status(kv') = "running"
               => calls' <= kv[PROGRESS_KEY].value.totalBatches]_vars

C28_Witness ==
    /\ Status(kv) = "completed"
    /\ kv[PROGRESS_KEY].value.totalBatches = 2
    /\ calls = kv[PROGRESS_KEY].value.totalBatches + 1
    /\ obs[1].op = "next" /\ obs[1].writes = 2 /\ faults = 0

\* The records of the accumulator in the store.
Records ==
    IF Has(kv, RESULTS_KEY)
    THEN {kv[RESULTS_KEY].value[k] : k \in 1..Len(kv[RESULTS_KEY].value)}
    ELSE {}

\* C24: the premiumRate of a record is (price - nav) / nav * 100 rounded to
\* 2 decimals when nav > 0, and 0 whatever the price when nav <= 0; a price
\* of 10.5 on a valuation of 10 gives 5.00 and a price of 9.5 gives -5.00.
\* With money in thousandths and the rate in hundredths of a percent, the
\* rate is within a half of (price - nav) * 10000 / nav.
C24_PremiumRate ==
    \A r \in Records :
       /\ r.nav > 0
          => 2 * Abs(r.premiumRate * r.nav - (r.marketPrice - r.nav) * 10000)
               <= r.nav
       /\ r.nav <= 0 => r.premiumRate = 0
       /\ (r.marketPrice = 10500 /\ r.nav = 10000) => r.premiumRate = 500
       /\ (r.marketPrice = 9500 /\ r.nav = 10000) => r.premiumRate = -500

C24_Witness ==
    /\ \E r \in Records :
         r.marketPrice = 10500 /\ r.nav = 10000 /\ r.premiumRate = 500
    /\ obs[1].op = "next" /\ Status(kv) = "running"

\* C25: the netProfit of a record is premiumRate - 0.16 when premiumRate > 0
\* and abs(premiumRate) - 0.51 otherwise, a premiumRate of 0 giving -0.51; it
\* is there when it is negative; 5.00 gives 4.84 and -5.00 gives 4.49.
C25_NetProfit ==
    \A r \in Records :
       /\ r.premiumRate > 0 => r.netProfit = r.premiumRate - 16
       /\ r.premiumRate < 0 => r.netProfit = (0 - r.premiumRate) - 51
       /\ r.premiumRate = 0 => r.netProfit = -51
       /\ r.premiumRate = 500 => r.netProfit = 484
       /\ r.premiumRate = -500 => r.netProfit = 449

C25_Witness ==
    /\ \E r \in Records : r.premiumRate = 0 /\ r.netProfit = -51
    /\ \E r \in Records : r.nav = 1000 /\ r.marketPrice = 1000
    /\ obs[1].op = "next" /\ Status(kv) = "running"

\* The words of a keyword list.
Words(keywords) == {keywords[k] : k \in 1..Len(keywords)}

\* C26: the fundType of a record is qdii when the name has a QDII keyword,
\* also when it has a commodity keyword too; commodity when it has a
\* commodity keyword and no QDII keyword; normal when it has neither.
C26_FundType ==
    \A r \in Records :
       LET qdii == \E kw \in Words(QDII_KEYWORDS) : Includes(r.name, kw)
           commodity == \E kw \in Words(COMMODITY_KEYWORDS) : Includes(r.name, kw)
       IN /\ qdii => r.fundType = "qdii"
          /\ (commodity /\ ~qdii) => r.fundType = "commodity"
          /\ (~commodity /\ ~qdii) => r.fundType = "normal"

C26_Witness ==
    /\ \E r \in Records :
         /\ Includes(r.name, "nasdaq") /\ Includes(r.name, "yuanyou")
         /\ r.fundType = "qdii"
    /\ obs[1].op = "next" /\ Status(kv) = "running"

\* The closes answer a has for the date of its own valuation.
OwnCloses(a) ==
    IF a.navOk /\ a.priceOk
    THEN {a.closes[e].value : e \in {e \in 1..Len(a.closes) :
                                       a.closes[e].date = a.navDate}} \ {0}
    ELSE {}

\* C30: in a nextBatch() call that processes a slice, a fund is appended
\* exactly when its valuation lookup answered a valuation and the price
\* lookup answered a close for the date of that valuation; the record has
\* that close as marketPrice, not the live price of the list, and a
\* premiumRate computed from that close and the valuation; a fund with a miss
\* is skipped, the funds after it are still processed, and the progress
\* advances by the whole slice.
C30_SliceRecords ==
    [][\A i \in Callers :
         (obs'[i].op = "next" /\ pc[i] = "idle" /\ NextBatchOf(kv) # <<>>)
         => \A answers \in SliceAnswers(Len(NextBatchOf(kv)), MaxFaults - faults) :
              NextWith(i, answers)
              => LET batch == NextBatchOf(kv)
                     prev == IF Has(kv, RESULTS_KEY) THEN kv[RESULTS_KEY].value
                             ELSE <<>>
                     acc == kv'[RESULTS_KEY].value
                     ok == {k \in 1..Len(batch) : OwnCloses(answers[k]) # {}}
                     at(k) == Len(prev) + Cardinality({m \in ok : m <= k})
                 IN /\ Len(acc) = Len(prev) + Cardinality(ok)
                    /\ \A k \in ok :
                         LET r == acc[at(k)]
                         IN /\ r.code = batch[k].code
                            /\ r.marketPrice \in OwnCloses(answers[k])
                            /\ r.marketPrice # batch[k].marketPrice
                            /\ r.nav = answers[k].nav
                            /\ r.navDate = answers[k].navDate
                            /\ r.nav > 0
                               => 2 * Abs(r.premiumRate * r.nav
                                          - (r.marketPrice - r.nav) * 10000)
                                    <= r.nav
                    /\ \A k \in (1..Len(batch)) \ ok :
                         \A j \in (Len(prev) + 1)..Len(acc) :
                            acc[j].code # batch[k].code
                    /\ kv'[PROGRESS_KEY].value.processedFunds
                         = kv[PROGRESS_KEY].value.processedFunds + Len(batch)
                    /\ kv'[PROGRESS_KEY].value.status = "running"]_vars

C30_Witness ==
    /\ obs[1].op = "next" /\ obs[1].writes = 2 /\ Status(kv) = "running"
    /\ kv[PROGRESS_KEY].value.processedFunds = BATCH_SIZE
    /\ kv[PROGRESS_KEY].value.totalFunds = MaxFunds
    /\ Has(kv, RESULTS_KEY) /\ Len(kv[RESULTS_KEY].value) = BATCH_SIZE - 1
    /\ kv[RESULTS_KEY].value[1].code = 2
    /\ kv[RESULTS_KEY].value[BATCH_SIZE - 1].code = BATCH_SIZE
    /\ kv[RESULTS_KEY].value[1].marketPrice = 1050

\* How often the run has sent the request of a kind for the fund code.
Sent(kind, code) ==
    Cardinality({j \in 1..Len(net.trace) : net.trace[j] = Request(kind, code)})

\* C22: in a run under one driver no fund is tried again: the batches have
\* sent the valuation request of every fund of the persisted list they have
\* got to exactly once and of no other fund, and a fund that was skipped in
\* its batch (it is not in the accumulator) has no further request, neither
\* from a later batch nor from finalize.
C22_NoRetry ==
    (Has(kv, PROGRESS_KEY) /\ Has(kv, FUNDS_KEY) /\ Has(kv, RESULTS_KEY)
     /\ Status(kv) \in {"running", "completed"})
    => LET funds == kv[FUNDS_KEY].value
           acc == kv[RESULTS_KEY].value
           done == kv[PROGRESS_KEY].value.processedFunds
       IN \A k \in 1..Len(funds) :
            /\ Sent("nav", funds[k].code) = IF k <= done THEN 1 ELSE 0
            /\ Sent("price", funds[k].code) <= Sent("nav", funds[k].code)
            /\ (\A j \in 1..Len(acc) : acc[j].code # funds[k].code)
               => /\ Sent("navHistory", funds[k].code) = 0
                  /\ Sent("priceHistory", funds[k].code) = 0

C22_Witness ==
    /\ Status(kv) = "completed" /\ Has(kv, CACHE_KEY)
    /\ kv[PROGRESS_KEY].value.totalFunds = MaxFunds
    /\ Report.failedCount = 1
    /\ Sent("nav", 1) = 1 /\ Sent("price", 1) = 0
    /\ Sent("priceHistory", 1) = 0 /\ Sent("priceHistory", 2) = 1
    /\ Sent("nav", MaxFunds) = 1

\* C23: in a run, once the valuation document or the price document of a
\* fund has been fetched from the upstream, every later lookup for the fund
\* is answered from the cache: the run sends at most one request per fund to
\* each of the two sources.
C23_OneRequestPerSource ==
    \A j, k \in 1..Len(net.trace) :
       (j < k /\ net.trace[j].code = net.trace[k].code)
       => /\ ~(net.trace[j].kind \in {"nav", "navHistory"}
               /\ net.trace[k].kind \in {"nav", "navHistory"})
          /\ ~(net.trace[j].kind \in {"price", "priceHistory"}
               /\ net.trace[k].kind \in {"price", "priceHistory"})

\* C29: while nextBatch() processes a slice the requests go out one at a
\* time, fund after fund in the order of the slice, and a delay separates
\* every two consecutive requests, the valuation request of a fund and the
\* price request of the same fund too.
C29_DelayBetweenRequests ==
    \A j \in 1..(Len(net.trace) - 1) :
       LET e == net.trace[j]
           f == net.trace[j + 1]
       IN /\ (e.kind \in {"nav", "price"} /\ f.kind \in {"nav", "price"})
             => FALSE
          /\ (e.kind \in {"nav", "price"}
              /\ \E k \in (j + 1)..Len(net.trace) :
                   net.trace[k].kind \in {"nav", "price"})
             => LET k == CHOOSE k \in (j + 1)..Len(net.trace) :
                           /\ net.trace[k].kind \in {"nav", "price"}
                           /\ \A m \in (j + 1)..(k - 1) :
                                net.trace[m].kind \notin {"nav", "price"}
                IN net.trace[k].code >= e.code

\* C35: a run needs one nextBatch() call beyond its last data batch.  After
\* totalBatches serialised calls processedFunds is totalFunds and the status
\* still running; none of these calls has touched the report; the call after
\* them sets completed and stores the report of the accumulator.  With an
\* empty list the first call completes the run, with an empty report.
C35_OneCallBeyond ==
    [][\A i \in Drivers :
         (Status(kv) = "running" /\ pc[i] = "idle" /\ calls' = calls + 1
          /\ Has(kv, FUNDS_KEY))
         => LET p == kv[PROGRESS_KEY].value
            IN /\ calls <= p.totalBatches
               /\ calls < p.totalBatches
                  => /\ Status(kv') = "running"
                     /\ kv'[CACHE_KEY] = kv[CACHE_KEY]
                     /\ p.processedFunds < p.totalFunds
               /\ calls = p.totalBatches
                  => /\ p.processedFunds = p.totalFunds
                     /\ Status(kv') = "completed"
                     /\ Has(kv', CACHE_KEY)
                     /\ kv'[CACHE_KEY].value.allFunds = kv[RESULTS_KEY].value
                     /\ p.totalBatches = 0
                        => kv'[CACHE_KEY].value.allFunds = <<>>]_vars

C35_Witness ==
    /\ Status(kv) = "running" /\ ~Has(kv, CACHE_KEY)
    /\ kv[PROGRESS_KEY].value.totalBatches = 2 /\ calls = 2
    /\ kv[PROGRESS_KEY].value.processedFunds = MaxFunds
    /\ kv[PROGRESS_KEY].value.totalFunds = MaxFunds
    /\ obs[1].op = "next" /\ obs[1].writes = 2

\* The place of the fund code in the list funds, 0 when it is not there.
PlaceOf(funds, code) ==
    IF \E k \in 1..Len(funds) : funds[k].code = code
    THEN CHOOSE k \in 1..Len(funds) : funds[k].code = code
    ELSE 0

\* C37: under one driver whose calls all return, between calls the fund
\* codes of the persisted accumulator are a subsequence of the first
\* processedFunds codes of the persisted list: every fund of the accumulator
\* is one of them, and the funds of the accumulator are in the order of the
\* list, none twice; so successCount <= processedFunds.
C37_Subsequence ==
    (Has(kv, PROGRESS_KEY) /\ Has(kv, FUNDS_KEY) /\ Has(kv, RESULTS_KEY))
    => LET funds == kv[FUNDS_KEY].value
           acc == kv[RESULTS_KEY].value
           p == kv[PROGRESS_KEY].value
       IN /\ \A j \in 1..Len(acc) :
               /\ PlaceOf(funds, acc[j].code) >= 1
               /\ PlaceOf(funds, acc[j].code) <= p.processedFunds
          /\ \A j, k \in 1..Len(acc) :
               j < k => PlaceOf(funds, acc[j].code) < PlaceOf(funds, acc[k].code)
          /\ p.successCount = Len(acc)
          /\ p.successCount <= p.processedFunds

C37_Witness ==
    /\ Has(kv, PROGRESS_KEY) /\ Has(kv, FUNDS_KEY) /\ Has(kv, RESULTS_KEY)
    /\ Status(kv) = "running"
    /\ kv[PROGRESS_KEY].value.processedFunds = MaxFunds
    /\ Len(kv[RESULTS_KEY].value) = MaxFunds - 1
    /\ kv[RESULTS_KEY].value[BATCH_SIZE - 1].code = BATCH_SIZE - 1
    /\ kv[RESULTS_KEY].value[BATCH_SIZE].code = MaxFunds

\* The awaits of generateFinalResult.
InFinalize(label) == label \in {"f_getResults", "f_putReport"}

\* C36: the status completed is persisted before finalize runs, so the
\* store can hold the status completed without the report of the run.  When
\* finalize fails or the invocation is terminated there, the status stays
\* completed, and no later nextBatch() call runs finalize or writes anything.
C36_CompletedBeforeReport ==
    [][\A i \in Drivers :
         /\ (pc[i] = "n_putCompleted" /\ pc'[i] # "idle")
            => /\ InFinalize(pc'[i])
               /\ Status(kv') = "completed"
               /\ kv'[CACHE_KEY] = kv[CACHE_KEY]
         /\ (InFinalize(pc[i]) /\ pc'[i] = "idle" /\ ret'[i].kind = "terminated")
            => /\ Status(kv') = "completed"
               /\ kv' = kv
         /\ (Status(kv) = "completed" /\ ~InFinalize(pc[i]))
            => /\ kv' = kv
               /\ ~InFinalize(pc'[i])]_vars

C36_Witness ==
    /\ Status(kv) = "completed" /\ ~Has(kv, CACHE_KEY)
    /\ pc[1] = "idle" /\ obs[1].op = "next" /\ obs[1].writes = 0
    /\ ret[1].kind = "progress" /\ ret[1].progress.status = "completed"
    /\ faults = 1
    /\ Len(kv[RESULTS_KEY].value) = MaxFunds

\* C38: nextBatch() writes the accumulator before the progress.  When the
\* invocation is terminated between the two writes, the accumulator holds the
\* funds of the slice and the progress still names the batch; the next
\* nextBatch() call takes the same slice and appends its funds again, and the
\* accumulator then holds funds twice.
C38_AccumulatorFirst ==
    [][\A i \in Drivers :
         /\ (pc[i] = "n_putResults" /\ pc'[i] = "n_putProgress")
            => /\ kv'[RESULTS_KEY].value = loc[i].existing
               /\ kv'[PROGRESS_KEY] = kv[PROGRESS_KEY]
         /\ (pc[i] = "n_putProgress" /\ pc'[i] = "idle"
             /\ ret'[i].kind = "terminated")
            => /\ kv' = kv
               /\ kv[PROGRESS_KEY].value.currentBatch = loc[i].progress.currentBatch
               /\ kv[RESULTS_KEY].value = loc[i].existing
               /\ Len(kv[RESULTS_KEY].value)
                    > kv[PROGRESS_KEY].value.successCount
         /\ (pc[i] = "n_slice" /\ pc'[i] = "n_getResults"
             /\ Len(kv[RESULTS_KEY].value) > kv[PROGRESS_KEY].value.successCount)
            => /\ loc'[i].results # <<>>
               /\ \A k \in 1..Len(loc'[i].results) :
                     \E j \in 1..Len(kv[RESULTS_KEY].value) :
                        kv[RESULTS_KEY].value[j].code = loc'[i].results[k].code
         /\ (pc[i] = "n_putResults" /\ pc'[i] = "n_putProgress"
             /\ Len(kv[RESULTS_KEY].value) > kv[PROGRESS_KEY].value.successCount)
            => ~NoFundTwice(kv'[RESULTS_KEY].value)]_vars

C38_Witness ==
    /\ pc[1] = "idle" /\ obs[1].op = "next" /\ obs[1].writes = 2
    /\ faults = 1
    /\ Status(kv) = "running"
    /\ kv[PROGRESS_KEY].value.processedFunds = BATCH_SIZE
    /\ Len(kv[RESULTS_KEY].value) = 2 * BATCH_SIZE
    /\ ~NoFundTwice(kv[RESULTS_KEY].value)
    /\ kv[PROGRESS_KEY].value.successCount = 2 * BATCH_SIZE

\* The codes of a sequence of funds.
CodesOf(funds) == {funds[j].code : j \in 1..Len(funds)}

\* C39: start() is not guarded by the status.  Called while a nextBatch()
\* invocation of the run before is in flight, it writes the new list, the
\* empty accumulator and the new progress; the invocation in flight then
\* appends the results of its slice of the old list to the accumulator it
\* finds, and writes the progress it read at its beginning, advanced by one
\* batch: the old totalFunds and totalBatches, the old currentBatch plus one.
C39_StartUnguarded ==
    [][/\ (pc[2] = "s_putFunds" /\ pc'[2] # pc[2])
          => kv'[FUNDS_KEY].value = loc[2].funds
       /\ (pc[2] = "s_putResults" /\ pc'[2] # pc[2])
          => kv'[RESULTS_KEY].value = <<>>
       /\ (pc[2] = "s_putProgress" /\ pc'[2] # pc[2])
          => kv'[PROGRESS_KEY].value = StartProgress(Len(kv[FUNDS_KEY].value))
       /\ (pc[1] = "n_slice" /\ pc'[1] # pc[1])
          => CodesOf(loc'[1].results)
               = CodesOf(Slice(loc[1].funds, SliceStart(loc[1].progress),
                               SliceEnd(loc[1].progress, loc[1].funds)))
       /\ (pc[1] = "n_getResults" /\ pc'[1] # pc[1])
          => loc'[1].existing = kv[RESULTS_KEY].value \o loc[1].results
       /\ (pc[1] = "n_putResults" /\ pc'[1] # pc[1])
          => kv'[RESULTS_KEY].value = loc[1].existing
       /\ (pc[1] = "n_putProgress" /\ pc'[1] # pc[1])
          => LET old == loc[1].progress
                 new == kv'[PROGRESS_KEY].value
             IN /\ new.totalFunds = old.totalFunds
                /\ new.totalBatches = old.totalBatches
                /\ new.currentBatch = old.currentBatch + 1
                /\ new.status = "running"]_vars

C39_Witness ==
    /\ overlap /\ pc[1] = "idle" /\ pc[2] = "idle"
    /\ obs[1].op = "next" /\ obs[1].writes = 2
    /\ obs[2].op = "start" /\ obs[2].writes = 3
    /\ Len(kv[FUNDS_KEY].value) = 1
    /\ kv[PROGRESS_KEY].value.totalFunds = MaxFunds
    /\ kv[PROGRESS_KEY].value.totalBatches = 2
    /\ kv[PROGRESS_KEY].value.currentBatch = 1
    /\ Len(kv[RESULTS_KEY].value) = BATCH_SIZE
    /\ ~(CodesOf(kv[RESULTS_KEY].value) \subseteq CodesOf(kv[FUNDS_KEY].value))

\* The calendar: the date after a date, and the days from one date to another
\* counted one by one.
NextDate(date) ==
    IF date[3] < MonthLength(date[1], date[2]) THEN <<date[1], date[2], date[3] + 1>>
    ELSE IF date[2] < 12 THEN <<date[1], date[2] + 1, 1>>
    ELSE <<date[1] + 1, 1, 1>>

Earlier(a, b) ==
    \/ a[1] < b[1]
    \/ a[1] = b[1] /\ a[2] < b[2]
    \/ a[1] = b[1] /\ a[2] = b[2] /\ a[3] < b[3]

RECURSIVE DaysFromTo(_, _)
DaysFromTo(a, b) ==
    IF a = b THEN 0
    ELSE IF Earlier(a, b) THEN 1 + DaysFromTo(NextDate(a), b)
    ELSE 0 - DaysFromTo(b, a)

\* Today's date at the fixed offset of eight hours.
Today(instant) == toISODate(instant + 8)

\* C33: navDelayDays(navDate) is the number of calendar days from navDate to
\* today's date at UTC+8 (the date of the instant eight hours on); it is a
\* function of navDate and the instant, 0 for today's date, and the same at
\* every instant of one UTC+8 date.
C33_NavDelayDays ==
    \A i \in Drivers :
       ret[i].kind = "days"
       => /\ ret[i].days = DaysFromTo(ret[i].navDate, Today(ret[i].at))
          /\ ret[i].navDate = Today(ret[i].at) => ret[i].days = 0
          /\ Today(now) = Today(ret[i].at)
             => getNavDelayDays(ret[i].navDate, now) = ret[i].days

C33_Witness ==
    /\ ret[1].kind = "days" /\ ret[1].navDate = <<2024, 2, 28>>
    /\ ret[1].days = 2
    /\ ret[1].at = 24 * 59 + 17
    /\ now = ret[1].at + 6
    /\ Today(now) = <<2024, 3, 1>>

\* The record has a code and a name, and its name no blocklisted keyword.
Named(item) ==
    /\ item.f12 # 0 /\ item.f14 # <<>>
    /\ \A k \in 1..Len(item.f14) : item.f14[k] \notin SkipKeywords

\* The funds of a list made of a record.
FromRecord(funds, item) ==
    \E j \in 1..Len(funds) :
       /\ funds[j].code = item.f12
       /\ funds[j].name = item.f14
       /\ funds[j].marketPrice = item.f2

\* C34 as stated: fetchLOFList() keeps every record with a code, a name
\* without a blocklisted keyword, and a positive price.
C34_PositivePriceKept ==
    \A i \in Drivers :
       ret[i].kind = "list"
       => \A k \in 1..Len(ret[i].records) :
             (Named(ret[i].records[k]) /\ ret[i].records[k].f2 > 0)
             => FromRecord(ret[i].funds, ret[i].records[k])

\* C34: fetchLOFList() discards every record without a price, with a price
\* that is not positive, under 0.5 or over 100, without a code or a name, or
\* with a name containing a blocklisted keyword; it keeps every other
\* record, in the order of the response.
C34_Filter ==
    \A i \in Drivers :
       ret[i].kind = "list"
       => LET Kept(item) == Named(item) /\ item.f2 >= 500 /\ item.f2 <= 100000
              kept == SelectSeq(ret[i].records, Kept)
          IN /\ Len(ret[i].funds) = Len(kept)
             /\ \A j \in 1..Len(kept) :
                   /\ ret[i].funds[j].code = kept[j].f12
                   /\ ret[i].funds[j].name = kept[j].f14
                   /\ ret[i].funds[j].marketPrice = kept[j].f2

C34_Witness ==
    /\ ret[1].kind = "list"
    /\ ret[1].records = << [f12 |-> 1, f14 |-> <<"LOF">>, f2 |-> 400],
                           [f12 |-> 2, f14 |-> <<"LOF">>, f2 |-> 500] >>
    /\ Len(ret[1].funds) = 1
    /\ ret[1].funds[1].code = 2

\* The requests of caller i in flight.
InFlight(label, locals) == IF label = "b_group" THEN locals.flight ELSE {}

\* C32: fetchFundNavBatch(codes, c) has at most c valuation requests in
\* flight; a group is started only when no request is in flight and every
\* request of the groups before has settled; the Map it returns holds
\* exactly the codes whose fetch returned a valuation.
C32_GroupsInTurn ==
    [][\A i \in Drivers :
         LET started == InFlight(pc'[i], loc'[i]) \ InFlight(pc[i], loc[i])
         IN /\ pc'[i] = "b_group"
               => Cardinality(loc'[i].flight) <= loc'[i].concurrency
            /\ started # {}
               => /\ InFlight(pc[i], loc[i]) = {}
                  /\ \A k \in 1..Len(loc'[i].funds) :
                        (\E j \in started : k < j) /\ k \notin started
                        => k \in DOMAIN loc'[i].seen
            /\ (ret'[i].kind = "navMap" /\ ret'[i] # ret[i])
               => /\ {ret'[i].navMap[j] : j \in 1..Len(ret'[i].navMap)}
                       = {k \in 1..Len(ret'[i].funds) : ret'[i].seen[k].navOk}
                  /\ \A j, k \in 1..Len(ret'[i].navMap) :
                        ret'[i].navMap[j] = ret'[i].navMap[k] => j = k]_vars

C32_Witness ==
    /\ ret[1].kind = "navMap" /\ pc[1] = "idle"
    /\ Len(ret[1].funds) = 4
    /\ ret[1].concurrency = 2
    /\ ret[1].navMap = <<1, 3, 4>>
    /\ ~ret[1].seen[2].navOk

\* The close of a date among the closes the upstream answered with.
HasClose(a, date, price) ==
    /\ a.priceOk
    /\ \E k \in 1..Len(a.closes) : a.closes[k].date = date /\ a.closes[k].value = price

\* C31: in the result of calculate(), every fund of allFunds has the navDate
\* mostCommonNavDate and as its price the close of that date; a fund whose
\* valuation was fetched with another date, or that has no close of that
\* date, is not in allFunds, and failedCount counts the funds that are not.
C31_SameDate ==
    \A i \in Drivers :
       ret[i].kind = "result"
       => LET r == ret[i]
              In(k) == \E j \in 1..Len(r.allFunds) : r.allFunds[j].code = r.funds[k].code
          IN /\ \A j \in 1..Len(r.allFunds) :
                   /\ r.allFunds[j].navDate = r.mostCommonNavDate
                   /\ \E k \in 1..Len(r.funds) :
                         /\ r.funds[k].code = r.allFunds[j].code
                         /\ r.seen[k].navOk
                         /\ r.seen[k].navDate = r.allFunds[j].navDate
                         /\ HasClose(r.seen[k], r.mostCommonNavDate,
                                     r.allFunds[j].marketPrice)
             /\ \A k \in 1..Len(r.funds) :
                   (r.seen[k].navOk
                    /\ \/ r.seen[k].navDate # r.mostCommonNavDate
                       \/ ~\E price \in 1..100000 :
                             HasClose(r.seen[k], r.mostCommonNavDate, price))
                   => ~In(k)
             /\ r.failedCount = Cardinality({k \in 1..Len(r.funds) : ~In(k)})
             /\ r.successCount + r.failedCount = Len(r.funds)

C31_Witness ==
    /\ ret[1].kind = "result" /\ pc[1] = "idle"
    /\ Len(ret[1].funds) = MaxVaried + 1
    /\ ret[1].mostCommonNavDate = 2
    /\ \E k \in 1..Len(ret[1].funds) :
          ret[1].seen[k].navOk /\ ret[1].seen[k].navDate = 1
    /\ \E k \in 1..Len(ret[1].funds) :
          ret[1].seen[k].navOk /\ ret[1].seen[k].navDate = 2 /\ ~ret[1].seen[k].priceOk
    /\ Len(ret[1].allFunds) = Len(ret[1].funds) - 2
    /\ ret[1].failedCount = 2

====
